---- MODULE Spec2Model ----
(***************************************************************************)
(* Maine Drain Busters mail backend.                                       *)
(*                                                                         *)
(* The repository holds five server programs, each a file that builds its  *)
(* own express app and listens:                                            *)
(*   index.js   SMTP server: /send-email and /support-email, two sends     *)
(*   part_001   EmailJS proxy: /api/send-email (verbose error reply)       *)
(*   part_003   EmailJS proxy: /api/send-email                             *)
(*   part_002   EmailJS helper: /api/prepare-email (required-field check)  *)
(*   part_004   EmailJS helper: /api/prepare-email (no check)              *)
(* A run of the model is a run of one of them (variable program).          *)
(* Requests are JSON requests; a request is followed middleware by         *)
(* middleware, every await of the code being the end of one action.        *)
(*                                                                         *)
(* Strings that the code inspects character by character are sequences of  *)
(* one-character strings; fixed literals of the code are TLA+ strings.     *)
(***************************************************************************)
EXTENDS Integers, Sequences, FiniteSets, TLC

VARIABLES
  program,          \* the server program that runs
  env,              \* its process.env
  server,           \* the process: "starting", "listening" or "exited"
  pool,             \* the transporter's connection pool and the mails given to it
  generalHits,      \* generalLimiter: hits per IP in the current window
  emailHits,        \* emailLimiter: hits per IP in the current window
  generalAdmitted,  \* history: requests generalLimiter let through in the window
  emailAdmitted,    \* history: requests emailLimiter let through in the window
  emailRefilled,    \* history: the window elapsed on a used-up quota, no hit since
  emailLog,         \* history: the requests emailLimiter let through in the window,
                    \* by route and by whether their input is valid (kept on demand)
  reqs              \* the requests in flight

limiters ==
  <<generalHits, emailHits, generalAdmitted, emailAdmitted, emailRefilled, emailLog>>

vars == <<program, env, server, pool, limiters, reqs>>

----------------------------------------------------------------------------
(* Bounds of the model *)

\* requests that arrive per rate-limit window in the pipeline specification
MaxArrivals == 7
\* requests that may arrive beyond the general limit in the limiter specification
MaxOver == 2
\* size in bytes of an ordinary request body
SmallBody == 200
\* requests per window while the clock moves
MaxRendered == 2
\* calls of transporter.sendMail in one run of the pool
MaxSends == 6

----------------------------------------------------------------------------
(* Characters and strings *)

\* a body field that is not in the JSON object (JavaScript undefined)
Undefined == <<"undefined">>

WhiteSpace == {" ", "\t", "\n", "\r"}

\* the JSON values true and false of a body field (not the strings)
JSON_TRUE == <<"true">>
JSON_FALSE == <<"false">>

LIT_TRUE == <<"t","r","u","e">>
LIT_FALSE == <<"f","a","l","s","e">>

\* String(value) as express-validator's toString sees a field: undefined is '',
\* a boolean its name
ToStr(v) ==
  CASE v = Undefined -> <<>>
    [] v = JSON_TRUE -> LIT_TRUE
    [] v = JSON_FALSE -> LIT_FALSE
    [] OTHER -> v

RECURSIVE TrimLeft(_)
TrimLeft(s) ==
  IF s = <<>> THEN <<>>
  ELSE IF Head(s) \in WhiteSpace THEN TrimLeft(Tail(s)) ELSE s

RECURSIVE TrimRight(_)
TrimRight(s) ==
  IF s = <<>> THEN <<>>
  ELSE IF s[Len(s)] \in WhiteSpace THEN TrimRight(SubSeq(s, 1, Len(s) - 1)) ELSE s

\* String.prototype.trim and express-validator's trim()
Trim(s) == TrimRight(TrimLeft(s))

UpperToLower ==
  [c \in {"A","B","C","D","E","J","M","O","X"} |->
     CASE c = "A" -> "a" [] c = "B" -> "b" [] c = "C" -> "c" [] c = "D" -> "d"
       [] c = "E" -> "e" [] c = "J" -> "j" [] c = "M" -> "m" [] c = "O" -> "o"
       [] c = "X" -> "x"]

\* String.prototype.toLowerCase over the letters the inputs use
ToLowerCase(s) ==
  [i \in 1..Len(s) |-> IF s[i] \in DOMAIN UpperToLower THEN UpperToLower[s[i]] ELSE s[i]]

Digits == {"0","1","2","3","4","5","6","7","8","9"}

AllIn(s, set) == \A i \in 1..Len(s) : s[i] \in set

\* positions of character c in s
Positions(s, c) == {i \in 1..Len(s) : s[i] = c}

ENT_AMP == <<"&","a","m","p",";">>
ENT_LT == <<"&","l","t",";">>
ENT_GT == <<"&","g","t",";">>
ENT_QUOT == <<"&","q","u","o","t",";">>
ENT_APOS == <<"&","#","x","2","7",";">>
ENT_SLASH == <<"&","#","x","2","F",";">>
ENT_BSLASH == <<"&","#","x","5","C",";">>

Letters ==
  {"a","b","c","d","e","f","g","h","i","j","k","l","m","n","o","p","q","r","s","t",
   "u","v","w","x","y","z","A","B","C","D","E","F","G","H","I","J","K","L","M","N",
   "O","P","Q","R","S","T","U","V","W","X","Y","Z"}

StartsWith(s, p) == Len(s) >= Len(p) /\ SubSeq(s, 1, Len(p)) = p

Drop(s, n) == SubSeq(s, n + 1, Len(s))

----------------------------------------------------------------------------
(* Input validation functions of index.js *)

\* validateEmail: /^[^\s@]+@[^\s@]+\.[^\s@]+$/
validateEmail(email) ==
  /\ email # Undefined
  /\ \A i \in 1..Len(email) : email[i] \notin WhiteSpace
  /\ Cardinality(Positions(email, "@")) = 1
  /\ LET at == CHOOSE i \in Positions(email, "@") : TRUE
     IN  /\ at > 1
         /\ \E d \in Positions(email, ".") : d > at + 1 /\ d < Len(email)

\* validateName: name.replace(/[\r\n:;,]/g, '').trim()
validateName(name) ==
  Trim(SelectSeq(name, LAMBDA c : c \notin {"\r", "\n", ":", ";", ","}))

\* the character references that escape() writes and an HTML parser reads back
Entities ==
  { <<ENT_AMP, "&">>, <<ENT_LT, "<">>, <<ENT_GT, ">">>, <<ENT_QUOT, "\"">>,
    <<ENT_APOS, "'">>, <<ENT_SLASH, "/">>, <<ENT_BSLASH, "\\">> }

\* how innerHTML writes one character of a text node
SerializeChar(c) ==
  CASE c = "&" -> ENT_AMP
    [] c = "<" -> ENT_LT
    [] c = ">" -> ENT_GT
    [] OTHER -> <<c>>

\* validator.js escape(): ampersand, quotes, angle brackets, slash and backslash
\* become character references (so does the backquote, which no input here uses)
EscapeChar(c) ==
  IF \E e \in Entities : e[2] = c
  THEN (CHOOSE e \in Entities : e[2] = c)[1]
  ELSE <<c>>

RECURSIVE escape(_)
escape(s) == IF s = <<>> THEN <<>> ELSE EscapeChar(Head(s)) \o escape(Tail(s))

\* purify.sanitize(input, {ALLOWED_TAGS: [], ALLOWED_ATTR: []}) on a string: a
\* string without "<" is returned as it is; otherwise markup is removed,
\* character references are read and the text is written back
RECURSIVE purifySanitize(_)
purifySanitize(s) ==
  IF Positions(s, "<") = {} THEN s
  ELSE IF Head(s) = "<" /\ Len(s) > 1 /\ s[2] \in Letters \cup {"/", "!", "?"}
  THEN IF Positions(s, ">") = {} THEN <<>>
       ELSE purifySanitize(Drop(s, CHOOSE i \in Positions(s, ">") :
                                      \A j \in Positions(s, ">") : i <= j))
  ELSE IF Head(s) = "&" /\ \E e \in Entities : StartsWith(s, e[1])
  THEN LET e == CHOOSE x \in Entities : StartsWith(s, x[1])
       IN  SerializeChar(e[2]) \o purifySanitize(Drop(s, Len(e[1])))
  ELSE SerializeChar(Head(s)) \o purifySanitize(Tail(s))

\* sanitizeInput: non-strings (undefined, true, false) are returned as they are
sanitizeInput(input) ==
  IF input \in {Undefined, JSON_TRUE, JSON_FALSE} THEN input ELSE purifySanitize(input)

LIT_LOW == <<"L","o","w">>
LIT_MEDIUM == <<"M","e","d","i","u","m">>
LIT_HIGH == <<"H","i","g","h">>
LIT_URGENT == <<"U","r","g","e","n","t">>

----------------------------------------------------------------------------
(* express-validator chains of index.js.  The validators of validator.js   *)
(* are modelled on the strings the inputs below use.                       *)

isLength_NoMin(s, min, max) == Len(s) <= max

isLength(s, min, max) == Len(s) >= min /\ Len(s) <= max

\* isEmail: one @, a local part, a dotted domain whose last label is letters
isEmail(s) ==
  /\ validateEmail(s)
  /\ AllIn(s, Letters \cup Digits \cup {"@", ".", "-", "_", "+"})
  /\ LET lastDot == CHOOSE d \in Positions(s, ".") : \A e \in Positions(s, ".") : e <= d
     IN  /\ Len(s) - lastDot >= 2
         /\ AllIn(Drop(s, lastDot), Letters)

\* normalizeEmail (all_lowercase) leaves a value that is no address alone
normalizeEmail(s) == IF isEmail(s) THEN ToLowerCase(s) ELSE s

\* isMobilePhone: digits, an optional leading plus sign
isMobilePhone(s) ==
  LET d == IF s # <<>> /\ Head(s) = "+" THEN Tail(s) ELSE s
  IN  AllIn(d, Digits) /\ Len(d) >= 10 /\ Len(d) <= 15

\* isPostalCode('US'): /^\d{5}(-\d{4})?$/
isPostalCodeUS(s) ==
  \/ Len(s) = 5 /\ AllIn(s, Digits)
  \/ Len(s) = 10 /\ s[6] = "-" /\ AllIn(SubSeq(s, 1, 5), Digits)
       /\ AllIn(SubSeq(s, 7, 10), Digits)

UrgencyValues == { LIT_LOW, LIT_MEDIUM, LIT_HIGH, LIT_URGENT }

\* isDate: YYYY-MM-DD or YYYY/MM/DD with a month 01..12 and a day 01..31
isDate(s) ==
  /\ Len(s) = 10
  /\ s[5] \in {"-", "/"} /\ s[8] = s[5]
  /\ AllIn(SubSeq(s, 1, 4) \o SubSeq(s, 6, 7) \o SubSeq(s, 9, 10), Digits)
  /\ \/ s[6] = "0" /\ s[7] # "0"
     \/ s[6] = "1" /\ s[7] \in {"0", "1", "2"}
  /\ \/ s[9] = "0" /\ s[10] # "0"
     \/ s[9] \in {"1", "2"}
     \/ s[9] = "3" /\ s[10] \in {"0", "1"}

\* isBoolean (strict): 'true', 'false', '1', '0'
isBoolean(s) == s \in { LIT_TRUE, LIT_FALSE, <<"1">>, <<"0">> }

\* isNumeric: /^[+-]?([0-9]*[.])?[0-9]+$/
isNumeric(s) ==
  LET u == IF s # <<>> /\ Head(s) \in {"+", "-"} THEN Tail(s) ELSE s
      dots == Positions(u, ".")
  IN  /\ u # <<>>
      /\ Cardinality(dots) <= 1
      /\ u[Len(u)] \in Digits
      /\ AllIn(SelectSeq(u, LAMBDA c : c # "."), Digits)

AllFields ==
  {"firstName", "lastName", "email", "phone", "address", "city", "state", "zipCode",
   "serviceType", "urgency", "description", "preferredDate", "preferredTime",
   "claimDeal", "dealAmount", "name", "subject", "message"}

\* req.body of a request without those fields, and of one that has no body
EmptyBody == [f \in AllFields |-> Undefined]

\* .optional(): the chain is skipped for a field that is undefined
Optional(v, ok) == v = Undefined \/ ok

\* serviceRequestValidation: the fields validationResult(req) reports
serviceRequestValidation(b) ==
  {f \in AllFields :
     LET v == ToStr(b[f]) IN
     CASE f = "firstName"     -> ~isLength(Trim(v), 1, 50)
       [] f = "lastName"      -> ~isLength(Trim(v), 1, 50)
       [] f = "email"         -> ~isEmail(v)
       [] f = "phone"         -> ~Optional(b[f], isMobilePhone(v))
       [] f = "address"       -> ~isLength(Trim(v), 1, 200)
       [] f = "city"          -> ~isLength(Trim(v), 1, 100)
       [] f = "state"         -> ~isLength(Trim(v), 2, 50)
       [] f = "zipCode"       -> ~isPostalCodeUS(Trim(v))
       [] f = "serviceType"   -> ~isLength(Trim(v), 1, 100)
       [] f = "urgency"       -> ~Optional(b[f], v \in UrgencyValues)
       [] f = "description"   -> ~isLength(Trim(v), 10, 1000)
       [] f = "preferredDate" -> ~Optional(b[f], isDate(v))
       [] f = "preferredTime" -> ~Optional(b[f], isLength(Trim(v), 0, 50))
       [] f = "claimDeal"     -> ~Optional(b[f], isBoolean(v))
       [] f = "dealAmount"    -> ~Optional(b[f], isNumeric(v))
       [] OTHER -> FALSE}

\* req.body after the sanitizers of serviceRequestValidation have run
serviceRequestSanitized(b) ==
  [f \in AllFields |->
     LET v == ToStr(b[f]) IN
     CASE f \in {"firstName", "lastName", "address", "city", "state", "serviceType",
                 "description"} -> escape(Trim(v))
       [] f = "zipCode" -> Trim(v)
       [] f = "email" -> normalizeEmail(v)
       [] f = "preferredTime" -> IF b[f] = Undefined THEN Undefined ELSE escape(Trim(v))
       [] OTHER -> b[f]]

\* supportRequestValidation: the fields validationResult(req) reports
supportRequestValidation(b) ==
  {f \in AllFields :
     LET v == ToStr(b[f]) IN
     CASE f = "name"    -> ~isLength(Trim(v), 1, 100)
       [] f = "email"   -> ~isEmail(v)
       [] f = "phone"   -> ~Optional(b[f], isMobilePhone(v))
       [] f = "subject" -> ~Optional(b[f], isLength(Trim(v), 0, 200))
       [] f = "message" -> ~isLength(Trim(v), 10, 2000)
       [] OTHER -> FALSE}

\* req.body after the sanitizers of supportRequestValidation have run
supportRequestSanitized(b) ==
  [f \in AllFields |->
     LET v == ToStr(b[f]) IN
     CASE f \in {"name", "message"} -> escape(Trim(v))
       [] f = "email" -> normalizeEmail(v)
       [] f = "subject" -> IF b[f] = Undefined THEN Undefined ELSE escape(Trim(v))
       [] OTHER -> b[f]]

S_SUPPORT == <<"s","u","p","p","o","r","t","@","m","a","i","n","e","d","r","a","i","n","b","u","s","t","e","r","s",".","c","o","m">>
S_SUPPORT_BAD == <<"s","u","p","p","o","r","t","-","d","e","s","k">>
S_JOHN == <<"J","o","h","n">>
S_DOE == <<"D","o","e">>
S_EMAIL == <<"j","o","h","n","@","e","x","a","m","p","l","e",".","c","o","m">>
S_EMAIL_UPPER == <<"J","o","h","n","@","E","x","a","m","p","l","e",".","C","O","M">>
S_EMAIL_NODOT == <<"j","o","h","n","@","e","x","a","m","p","l","e">>
S_PHONE == <<"2","0","7","5","5","5","1","2","3","4">>
S_STREET == <<"1","2"," ","M","a","i","n"," ","S","t">>
S_CITY == <<"P","o","r","t","l","a","n","d">>
S_STATE == <<"M","E">>
S_ZIP == <<"0","4","1","0","1">>
S_ZIP_SHORT == <<"0","4","1","0">>
S_DRAIN == <<"D","r","a","i","n">>
S_DESC == <<"N","e","e","d"," ","h","e","l","p"," ","n","o","w">>
S_NEEDHELP == <<"N","e","e","d"," ","h","e","l","p">>
S_SOON == <<"S","o","o","n">>
S_DATE == <<"2","0","2","6","-","0","1","-","1","5">>
S_TIME == <<"9","a","m">>
S_AMOUNT == <<"5","0">>
S_JOHNDOE == <<"J","o","h","n"," ","D","o","e">>
S_LEAK == <<"L","e","a","k">>
S_TAGGED == <<"<","b",">","A","l","<","/","b",">">>
S_INJECT == <<"E","v","i","l","\r","\n","B","c","c",":"," ","x","@","x",".","c","o">>

----------------------------------------------------------------------------
(* Configuration and inputs *)

\* SUPPORT_ACCOUNT: an address, or a value that is none
SupportAccounts == {S_SUPPORT, S_SUPPORT_BAD}

Programs == {"index.js", "part_001", "part_002", "part_003", "part_004"}

\* requiredEnvVars of index.js
requiredEnvVars ==
  {"SMTP_HOST", "SMTP_USER", "SMTP_PASS", "WEBSITE_URL", "SUPPORT_URL", "SUPPORT_ACCOUNT"}

\* the variables that a deployment leaves unset or empty
UnsetVariables ==
  { {}, {"SMTP_HOST"}, {"SMTP_USER", "SMTP_PASS"}, {"WEBSITE_URL"}, {"SUPPORT_URL"},
    {"SUPPORT_ACCOUNT"} }

missing_NoRecipient(e) == {v \in requiredEnvVars \ {"SUPPORT_ACCOUNT"} : v \in e.unset}

\* missing = requiredEnvVars.filter(env => !process.env[env])
missing(e) == {v \in requiredEnvVars : v \in e.unset}

\* process.env of index.js: nothing checks that SUPPORT_ACCOUNT is an address.
\* process.env of part_001: the EmailJS variables may be unset.
\* EMAILJS_PRIVATE_KEY of the .env file: the secret of the EmailJS account
PrivateKeys == {<<"private-key-1">>, <<"private-key-2">>}

\* the EMAILJS_ variables of process.env
emailjsEnv(private) ==
  [SERVICE_PROVIDER_SERVICE_ID |-> <<"service_nm8ork9">>,
   SERVICE_PROVIDER_TEMPLATE_ID |-> <<"template_al86nng">>,
   SERVICE_PROVIDER_PUBLIC_KEY |-> <<"msqtzpkqSBGbI_lyv">>,
   SERVICE_PROVIDER_DEFAULT_REPLY_TO |-> S_SUPPORT,
   CLIENT_TEMPLATE_ID |-> <<"template_5260iiq">>,
   PRIVATE_KEY |-> private]

Envs(p) ==
  IF p = "index.js"
  THEN {[SUPPORT_ACCOUNT |-> IF "SUPPORT_ACCOUNT" \in u THEN Undefined ELSE a,
         WEBSITE_URL |-> IF "WEBSITE_URL" \in u THEN "undefined"
                         ELSE "https://mainedrainbusters.com",
         emailjsKeys |-> TRUE, unset |-> u, emailjs |-> emailjsEnv(Undefined)] :
          a \in SupportAccounts, u \in UnsetVariables}
  ELSE {[SUPPORT_ACCOUNT |-> Undefined, WEBSITE_URL |-> "none", emailjsKeys |-> k,
         unset |-> {}, emailjs |-> emailjsEnv(private)] :
          k \in IF p = "part_001" THEN BOOLEAN ELSE {TRUE},
          private \in IF p \in {"part_002", "part_004"} THEN PrivateKeys
                      ELSE {Undefined}}

IPs == {"203.0.113.7"}

\* the Origin header: absent, the configured site, another site
Origins == {"none", "https://mainedrainbusters.com", "https://evil.example"}

MailEndpoints == {"/send-email", "/support-email"}

Endpoints(p) ==
  CASE p = "index.js" -> MailEndpoints \cup {"/other"}
    [] p \in {"part_001", "part_003"} -> {"/api/send-email"}
    [] OTHER -> {"/api/prepare-email", "/api/emailjs-config"}

\* a fifty-one letter name
LongName == [i \in 1..51 |-> "a"]

ValidService ==
  [EmptyBody EXCEPT
     !.firstName = S_JOHN, !.lastName = S_DOE, !.email = S_EMAIL,
     !.phone = S_PHONE, !.address = S_STREET, !.city = S_CITY, !.state = S_STATE,
     !.zipCode = S_ZIP, !.serviceType = S_DRAIN, !.urgency = LIT_URGENT,
     !.description = S_DESC, !.preferredDate = S_DATE, !.preferredTime = S_TIME,
     !.claimDeal = LIT_TRUE, !.dealAmount = S_AMOUNT]

\* other values of one field of a service request
ServiceVariants(f) ==
  CASE f = "firstName" -> {Undefined, <<>>, <<" ", " ">>, LongName, S_TAGGED}
    [] f = "lastName" -> {Undefined}
    [] f = "email" -> {Undefined, S_EMAIL_NODOT, S_EMAIL_UPPER, S_SUPPORT}
    [] f = "phone" -> {Undefined, <<"1", "2">>}
    [] f = "address" -> {Undefined}
    [] f = "city" -> {<<>>}
    [] f = "state" -> {<<"M">>}
    [] f = "zipCode" -> {S_ZIP_SHORT}
    [] f = "serviceType" -> {Undefined}
    [] f = "urgency" -> {Undefined, S_SOON}
    [] f = "description" -> {Undefined, S_NEEDHELP}
    [] f = "preferredDate" -> {Undefined, S_SOON}
    [] f = "preferredTime" -> {Undefined}
    [] f = "claimDeal" ->
         {Undefined, JSON_TRUE, JSON_FALSE, LIT_FALSE, <<"1">>, <<"0">>, S_SOON}
    [] f = "dealAmount" -> {Undefined, S_SOON}
    [] OTHER -> {}

ServiceBodies ==
  {EmptyBody, ValidService}
    \cup {[ValidService EXCEPT ![f] = v] : <<f, v>> \in
            UNION {{<<g, w>> : w \in ServiceVariants(g)} : g \in AllFields}}
    \cup {[ValidService EXCEPT !.phone = Undefined, !.urgency = Undefined,
             !.preferredDate = Undefined, !.preferredTime = Undefined,
             !.claimDeal = Undefined, !.dealAmount = Undefined]}

ValidSupport ==
  [EmptyBody EXCEPT
     !.name = S_JOHNDOE, !.email = S_EMAIL, !.phone = S_PHONE,
     !.subject = S_LEAK, !.message = S_DESC]

\* other values of one field of a support request
SupportVariants(f) ==
  CASE f = "name" -> {Undefined, <<" ">>, S_INJECT}
    [] f = "email" -> {Undefined, S_EMAIL_NODOT, S_EMAIL_UPPER}
    [] f = "phone" -> {Undefined, <<"1", "2">>}
    [] f = "subject" -> {Undefined}
    [] f = "message" -> {Undefined, S_NEEDHELP}
    [] OTHER -> {}

SupportBodies ==
  {EmptyBody, ValidSupport}
    \cup {[ValidSupport EXCEPT ![f] = v] : <<f, v>> \in
            UNION {{<<g, w>> : w \in SupportVariants(g)} : g \in AllFields}}

\* bodies of the EmailJS programs: name, email, phone, message, subject,
\* address (none has discount_claimed)
LegacyBodies ==
  {EmptyBody} \cup
  {[EmptyBody EXCEPT !.name = n, !.email = e, !.message = m, !.phone = ph,
                     !.subject = su, !.address = ad] :
     n \in {Undefined, <<>>, S_JOHNDOE}, e \in {Undefined, S_EMAIL},
     m \in {Undefined, S_NEEDHELP}, ph \in {Undefined, S_PHONE},
     su \in {Undefined, S_LEAK}, ad \in {Undefined, S_STREET}}

\* sizes in bytes of the request bodies that arrive
BodySizes == {SmallBody, 100 * 1024 - 1, 100 * 1024, 100 * 1024 + 1}

\* the JSON objects that arrive at an endpoint in a body of `size` bytes; the
\* bodies just below the size cap are valid submissions padded with white space
Bodies(endpoint, size) ==
  CASE endpoint = "/send-email" ->
         IF size = SmallBody THEN ServiceBodies ELSE {ValidService}
    [] endpoint = "/support-email" ->
         IF size = SmallBody THEN SupportBodies ELSE {ValidSupport}
    [] endpoint \in {"/other", "/api/emailjs-config"} -> {EmptyBody}
    [] OTHER -> LegacyBodies

\* the limiter specification sends requests without fields
FewBodies(endpoint, size) ==
  IF size = SmallBody THEN {EmptyBody} ELSE Bodies(endpoint, size)


----------------------------------------------------------------------------
(* Rate limiters, CORS gate and body parser of index.js *)

\* emailLimiter: max requests per IP and window
EmailMax == 5
\* generalLimiter: max requests per IP and window
GeneralMax == 100

emailLimiter_OneMore(totalHits) == totalHits <= EmailMax + 1

\* express-rate-limit answers 429 once the hits of the window exceed max
emailLimiter(totalHits) == totalHits <= EmailMax

generalLimiter_OneMore(totalHits) == totalHits <= GeneralMax + 1

generalLimiter(totalHits) == totalHits <= GeneralMax

corsOrigin_Any(origin, e) == TRUE

\* cors origin callback: no Origin header, or the configured site
corsOrigin(origin, e) == origin = "none" \/ origin = e.WEBSITE_URL

bodyTooLarge_OneMegabyte(size) == size > 1024 * 1024

\* bodyParser.json: the parser's own limit (100kb) and the verify callback
bodyTooLarge(size) == size > 100 * 1024 \/ size >= 100 * 1024

----------------------------------------------------------------------------
(* Requests and responses *)

NoResponse ==
  [status |-> 0, keys |-> {}, success |-> FALSE, message |-> "", error |-> "",
   errorId |-> 0, errorIds |-> <<>>, details |-> {}, configs |-> Undefined]

NoData ==
  [fields |-> EmptyBody, name |-> Undefined, clientEmail |-> Undefined,
   safeReplyTo |-> Undefined]

Idle ==
  [pc |-> "idle", ip |-> "", endpoint |-> "", origin |-> "none", size |-> 0,
   raw |-> EmptyBody, body |-> EmptyBody, hasBody |-> FALSE, errors |-> {},
   validated |-> FALSE, afterRefill |-> FALSE,
   data |-> NoData, calls |-> <<>>, results |-> <<>>, resp |-> NoResponse,
   nResp |-> 0, nextId |-> 1]

\* res.status(..).json(..): the response is written and the request is over
Respond(r, resp) ==
  [r EXCEPT !.pc = "done", !.resp = resp, !.nResp = r.nResp + 1]

\* Date.now().toString(36) + Math.random().toString(36).substr(2): an opaque
\* identifier, here the next unused number of the request
NewErrorId(r) == r.nextId

\* what a mail provider or an internal failure may say
ProviderErrors ==
  { [message |-> "Invalid login: 535 Authentication failed", code |-> "EAUTH"],
    [message |-> "Connection timeout", code |-> "ETIMEDOUT"] }

ConfigError == [message |-> "EmailJS public key is not set", code |-> "Error"]

\* errors that the middleware of index.js passes to next(err)
CorsError == [status |-> 0, type |-> "", message |-> "Not allowed by CORS"]
LimitError ==
  [status |-> 413, type |-> "entity.too.large", message |-> "request entity too large"]
VerifyError ==
  [status |-> 413, type |-> "entity.too.large", message |-> "Request payload too large"]
ParseError ==
  [status |-> 400, type |-> "entity.parse.failed", message |-> "Unexpected token"]

\* global error handler of index.js
globalErrorHandler(r, error) ==
  LET errorId == NewErrorId(r)
      q == [r EXCEPT !.nextId = r.nextId + 1]
  IN  IF \/ error.status = 413
         \/ error.type = "entity.too.large"
         \/ error.message = "request entity too large"
      THEN Respond(q, [NoResponse EXCEPT
             !.status = 413, !.keys = {"success", "error", "errorId"},
             !.error = "Request payload too large. Maximum size is 100KB.",
             !.errorId = errorId])
      ELSE IF error.type = "entity.parse.failed"
      THEN Respond(q, [NoResponse EXCEPT
             !.status = 400, !.keys = {"success", "error", "errorId"},
             !.error = "Invalid JSON format in request body",
             !.errorId = errorId])
      ELSE Respond(q, [NoResponse EXCEPT
             !.status = 500, !.keys = {"success", "error", "errorId"},
             !.error = "Internal server error", !.errorId = errorId])

SUBJ_SERVICE == <<"S","e","r","v","i","c","e"," ","R","e","q","u","e","s","t"," ","f","r","o","m"," ">>
SUBJ_SUPPORT == <<"S","u","p","p","o","r","t"," ","R","e","q","u","e","s","t"," ","f","r","o","m"," ">>
SUBJ_SERVICE_CONF == <<"S","e","r","v","i","c","e"," ","R","e","q","u","e","s","t"," ","C","o","n","f","i","r","m","a","t","i","o","n">>
SUBJ_SUPPORT_CONF == <<"S","u","p","p","o","r","t"," ","R","e","q","u","e","s","t"," ","R","e","c","e","i","v","e","d">>


----------------------------------------------------------------------------
(* The HTML templates of index.js: what each template writes into the slots *)
(* of its fixed markup                                                      *)

\* instants of the wall clock
StartTime == [year |-> 2026, day |-> 306, ms |-> 0]
Times == {StartTime, [year |-> 2026, day |-> 306, ms |-> 1], [year |-> 2027, day |-> 1, ms |-> 0]}

NoContent == [slots |-> [s \in {} |-> <<>>], stamp |-> [s \in {} |-> 0]]

\* ${v}: an undefined value is written as the text undefined
Interpolate(v) == IF v = Undefined THEN <<"undefined">> ELSE v

\* ${v || placeholder}
OrElse(v, placeholder) == IF v \in {Undefined, <<>>} THEN placeholder ELSE v

\* a value as a condition: undefined, false and '' are falsy, every other
\* string ('false' and '0' too) and true are truthy
Truthy(v) == v \notin {Undefined, <<>>, JSON_FALSE}

\* [address, city, state, zipCode].filter(Boolean).join(', ')
RECURSIVE JoinComma(_)
JoinComma(parts) ==
  IF parts = <<>> THEN <<>>
  ELSE IF ~Truthy(Head(parts)) THEN JoinComma(Tail(parts))
  ELSE IF \A k \in 2..Len(parts) : ~Truthy(parts[k]) THEN Head(parts)
  ELSE Head(parts) \o <<",", " ">> \o JoinComma(Tail(parts))

fullAddress(f) == JoinComma(<<f.address, f.city, f.state, f.zipCode>>)

\* createCompanyEmailTemplate
createCompanyEmailTemplate(f, name, now) ==
  [slots |->
     [name |-> Interpolate(name),
      phone |-> Interpolate(f.phone),
      email |-> Interpolate(f.email),
      address |-> Interpolate(fullAddress(f)),
      serviceType |-> OrElse(f.serviceType, <<"General Service">>),
      urgency |-> OrElse(f.urgency, <<"Standard">>),
      headDate |-> OrElse(f.preferredDate, <<"Flexible date">>),
      headTime |-> OrElse(f.preferredTime, <<"Flexible time">>),
      preferredDate |-> OrElse(f.preferredDate, <<"Not specified">>),
      preferredTime |-> OrElse(f.preferredTime, <<"Not specified">>),
      deal |-> IF Truthy(f.claimDeal)
               THEN <<"Claimed ($">> \o Interpolate(f.dealAmount) \o <<")">>
               ELSE <<"Not claimed">>,
      message |-> Interpolate(f.description)],
   stamp |-> [requestId |-> <<now.year, now.day>>, submitted |-> now, year |-> now.year]]

\* createCompanySupportTemplate
createCompanySupportTemplate(f, now) ==
  [slots |->
     [name |-> Interpolate(f.name),
      subject |-> OrElse(f.subject, <<"General Support">>),
      email |-> Interpolate(f.email),
      phone |-> OrElse(f.phone, <<"Not provided">>),
      message |-> Interpolate(f.message)],
   stamp |-> [submitted |-> now, year |-> now.year]]

\* createConfirmationEmail
createConfirmationEmail(f, name, submissionTime, now) ==
  [slots |->
     [name |-> Interpolate(name),
      serviceType |-> OrElse(f.serviceType, <<"General Service">>),
      phone |-> OrElse(f.phone, <<"Not provided">>),
      preferredDate |-> OrElse(f.preferredDate, <<"Flexible">>),
      preferredTime |-> OrElse(f.preferredTime, <<"Flexible">>)],
   stamp |-> [submitted |-> submissionTime, year |-> now.year]]

\* createSupportConfirmation
createSupportConfirmation(f, submissionTime, now) ==
  [slots |->
     [name |-> Interpolate(f.name),
      subject |-> OrElse(f.subject, <<"General Support">>),
      email |-> Interpolate(f.email),
      phone |-> OrElse(f.phone, <<"Not provided">>),
      message |-> Interpolate(f.message)],
   stamp |-> [submitted |-> submissionTime, year |-> now.year]]

----------------------------------------------------------------------------
(* sendEmail and the two handlers of index.js *)

transporter_NoTimeout ==
  [connectionTimeout |-> 0, greetingTimeout |-> 0, socketTimeout |-> 0,
   pool |-> TRUE, maxConnections |-> 5, maxMessages |-> 100]

transporter_NoPool ==
  [connectionTimeout |-> 60000, greetingTimeout |-> 30000, socketTimeout |-> 60000,
   pool |-> FALSE, maxConnections |-> 5, maxMessages |-> 100]

\* nodemailer.createTransport({...}): the time-outs in milliseconds, the pool
transporter ==
  [connectionTimeout |-> 60000, greetingTimeout |-> 30000, socketTimeout |-> 60000,
   pool |-> TRUE, maxConnections |-> 5, maxMessages |-> 100]

\* the pool at the start of a run: no connection yet, or a first connection
\* that has carried all but two of the messages it may carry
PoolStarts == {0, transporter.maxMessages - 2}

\* no callback of sendMail has run yet
NoCallback == [waited |-> FALSE, success |-> FALSE, nth |-> 0]

\* connections: the open connections, each with the messages it has carried
\* and whether it carries a mail now; queue: the mails that wait, oldest
\* first; issued: the calls of sendMail; finished: the callbacks that have
\* run; last: the latest callback. A mail remembers whether it had to wait.
createPool(carried) ==
  [connections |-> IF carried = 0 THEN <<>>
                   ELSE <<[messages |-> carried, busy |-> FALSE, waited |-> FALSE]>>,
   queue |-> <<>>,
   issued |-> 0,
   finished |-> 0,
   last |-> NoCallback]

\* the connections without a mail
Available(p) == {k \in DOMAIN p.connections : ~p.connections[k].busy}

\* a new connection may be opened: always without a pool, up to maxConnections
\* with one
CanOpen(p) ==
  ~transporter.pool \/ Len(p.connections) < transporter.maxConnections

First(S) == CHOOSE x \in S : \A y \in S : x <= y

Remove(seq, k) == SubSeq(seq, 1, k - 1) \o SubSeq(seq, k + 1, Len(seq))

\* how a mail on a connection ends
Outcomes == {"sent", "rejected", "connection error"}

sendEmail_NoCheck(r, leg, to, subject, replyTo, content) ==
  [r EXCEPT
     !.pc = "sendEmail",
     !.calls = Append(r.calls,
        [leg |-> leg, to |-> to, subject |-> subject, replyTo |-> replyTo,
         content |-> content, hung |-> FALSE, sent |-> TRUE,
         mailSubject |-> sanitizeInput(subject)])]

\* sendEmail up to its await: an invalid recipient throws inside the try block,
\* otherwise mailOptions is handed to transporter.sendMail
sendEmail(r, leg, to, subject, replyTo, content) ==
  [r EXCEPT
     !.pc = "sendEmail",
     !.calls = Append(r.calls,
        [leg |-> leg, to |-> to, subject |-> subject, replyTo |-> replyTo,
         content |-> content, hung |-> FALSE,
         sent |-> validateEmail(to),
         mailSubject |-> IF validateEmail(to) THEN sanitizeInput(subject)
                         ELSE Undefined])]

\* sendEmail's return values
SendSuccess == [success |-> TRUE, messageId |-> 1, errorId |-> 0]
SendFailure(errorId) == [success |-> FALSE, messageId |-> 0, errorId |-> errorId]

\* sanitizedData, name and safeReplyTo of the /send-email handler
serviceData(b) ==
  LET f == [b EXCEPT
              !.firstName = sanitizeInput(b.firstName),
              !.lastName = sanitizeInput(b.lastName),
              !.email = ToLowerCase(b.email),
              !.phone = sanitizeInput(b.phone),
              !.address = sanitizeInput(b.address),
              !.city = sanitizeInput(b.city),
              !.state = sanitizeInput(b.state),
              !.zipCode = sanitizeInput(b.zipCode),
              !.serviceType = sanitizeInput(b.serviceType),
              !.urgency = sanitizeInput(b.urgency),
              !.description = sanitizeInput(b.description),
              !.preferredDate = sanitizeInput(b.preferredDate),
              !.preferredTime = sanitizeInput(b.preferredTime)]
      name == Trim(f.firstName \o <<" ">> \o f.lastName)
  IN  [fields |-> f, name |-> name, clientEmail |-> f.email,
       safeReplyTo |-> IF validateEmail(f.email)
                       THEN validateName(name) \o <<" ", "<">> \o f.email \o <<">">>
                       ELSE Undefined]

\* sanitizedData and safeReplyTo of the /support-email handler
supportData(b) ==
  LET f == [b EXCEPT
              !.name = sanitizeInput(b.name),
              !.email = ToLowerCase(b.email),
              !.phone = sanitizeInput(b.phone),
              !.subject = sanitizeInput(b.subject),
              !.message = sanitizeInput(b.message)]
  IN  [fields |-> f, name |-> f.name, clientEmail |-> f.email,
       safeReplyTo |-> IF validateEmail(f.email)
                       THEN validateName(f.name) \o <<" ", "<">> \o f.email \o <<">">>
                       ELSE Undefined]

companyRecipient_Client(e, d) == d.clientEmail

\* the recipient of the first send: process.env.SUPPORT_ACCOUNT
companyRecipient(e, d) == e.SUPPORT_ACCOUNT

\* the recipient of the second send: sanitizedData.clientEmail / .email
clientRecipient(e, d) == d.clientEmail

\* subject of the first send
companySubject(endpoint, d) ==
  IF endpoint = "/send-email"
  THEN SUBJ_SERVICE \o d.name
  ELSE SUBJ_SUPPORT \o d.name \o
       (IF d.fields.subject \notin {Undefined, <<>>}
        THEN <<" ", "-", " ">> \o d.fields.subject ELSE <<>>)

\* subject of the second send
clientSubject(endpoint) ==
  IF endpoint = "/send-email" THEN SUBJ_SERVICE_CONF ELSE SUBJ_SUPPORT_CONF

sendToCompany_AndClient(r, e, now) ==
  sendEmail(sendEmail(r, "company", companyRecipient(e, r.data),
                      companySubject(r.endpoint, r.data), r.data.safeReplyTo,
                      IF r.endpoint = "/send-email"
                      THEN createCompanyEmailTemplate(r.data.fields, r.data.name, now)
                      ELSE createCompanySupportTemplate(r.data.fields, now)),
            "client", clientRecipient(e, r.data), clientSubject(r.endpoint),
            Undefined,
            IF r.endpoint = "/send-email"
            THEN createConfirmationEmail(r.data.fields, r.data.name, now, now)
            ELSE createSupportConfirmation(r.data.fields, now, now))

\* 1. Send to Company; `now` is the wall clock while the template is rendered
sendToCompany(r, e, now) ==
  sendEmail(r, "company", companyRecipient(e, r.data),
            companySubject(r.endpoint, r.data), r.data.safeReplyTo,
            IF r.endpoint = "/send-email"
            THEN createCompanyEmailTemplate(r.data.fields, r.data.name, now)
            ELSE createCompanySupportTemplate(r.data.fields, now))

\* 2. Send confirmation to Client; submissionTime: new Date()
sendToClient(r, e, now) ==
  sendEmail(r, "client", clientRecipient(e, r.data), clientSubject(r.endpoint),
            Undefined,
            IF r.endpoint = "/send-email"
            THEN createConfirmationEmail(r.data.fields, r.data.name, now, now)
            ELSE createSupportConfirmation(r.data.fields, now, now))

bothSuccessful_Either(a, b) == a.success \/ b.success

\* bothSuccessful
bothSuccessful(a, b) == a.success /\ b.success

errorIds_CompanyOnly(a, b) == IF ~a.success THEN <<a.errorId>> ELSE <<>>

\* errorIds: [..].filter(Boolean)
errorIds(a, b) ==
  SelectSeq(<<IF ~a.success THEN a.errorId ELSE 0, IF ~b.success THEN b.errorId ELSE 0>>,
            LAMBDA x : x # 0)

\* res.status(200).json({success, message, ...errorIds})
dispatchResponse(endpoint, a, b) ==
  [NoResponse EXCEPT
     !.status = 200,
     !.keys = {"success", "message"} \cup
              (IF ~a.success \/ ~b.success THEN {"errorIds"} ELSE {}),
     !.success = bothSuccessful(a, b),
     !.message = IF bothSuccessful(a, b)
                 THEN IF endpoint = "/send-email" THEN "Both emails sent successfully"
                      ELSE "Support request submitted successfully"
                 ELSE "Partial email failure",
     !.errorIds = IF ~a.success \/ ~b.success THEN errorIds(a, b) ELSE <<>>]

\* res.status(400).json({success: false, error, details: errors.array()})
validationResponse(errors) ==
  [NoResponse EXCEPT
     !.status = 400, !.keys = {"success", "error", "details"},
     !.error = "Invalid input data", !.details = errors]

hasErrors_Ignored(errors) == FALSE

\* if (!errors.isEmpty())
hasErrors(errors) == errors # {}

afterSendEmail_StopOnFailure(r, e, result, now) ==
  LET q == [r EXCEPT !.results = Append(r.results, result)]
  IN  IF Len(q.results) = 1 /\ result.success
      THEN sendToClient(q, e, now)
      ELSE Respond(q, dispatchResponse(q.endpoint, q.results[1],
                                       q.results[Len(q.results)]))

afterSendEmail_AnswerAtOnce(r, e, result, now) ==
  LET q == [r EXCEPT !.results = Append(r.results, result)]
  IN  IF Len(q.results) = 1
      THEN sendToClient([q EXCEPT !.resp = dispatchResponse(q.endpoint, result, SendSuccess),
                                  !.nResp = q.nResp + 1], e, now)
      ELSE [q EXCEPT !.pc = "done"]

\* the handler after the await of a sendEmail call has returned `result`
afterSendEmail(r, e, result, now) ==
  LET q == [r EXCEPT !.results = Append(r.results, result)]
  IN  IF Len(q.results) = 1
      THEN sendToClient(q, e, now)
      ELSE Respond(q, dispatchResponse(q.endpoint, q.results[1], q.results[2]))

\* the catch block of a route handler: res.status(500).json
handlerCatch(r) ==
  Respond([r EXCEPT !.nextId = r.nextId + 1],
          [NoResponse EXCEPT
             !.status = 500, !.keys = {"success", "error", "errorId"},
             !.error = "Internal server error", !.errorId = NewErrorId(r)])

----------------------------------------------------------------------------
(* EmailJS programs: part_001, part_003 (send), part_002, part_004 (prepare) *)

\* part_001 and part_003: res.json({success: true, response})
emailjsSuccess ==
  [NoResponse EXCEPT !.status = 200, !.keys = {"success", "response"}, !.success = TRUE]

\* the catch block of /api/send-email
emailjsCatch(p, error) ==
  IF p = "part_001"
  THEN [NoResponse EXCEPT
          !.status = 500, !.keys = {"success", "error", "details"},
          !.error = error.message, !.details = {error.code}]
  ELSE [NoResponse EXCEPT
          !.status = 500, !.keys = {"success", "error"}, !.error = error.message]

\* part_002: if (!name || !email || !message)
prepareMissing(p, b) ==
  /\ p = "part_002"
  /\ \E f \in {"name", "email", "message"} : b[f] \in {Undefined, <<>>}

\* emailConfigs of /api/prepare-email: part_004 has a subject in both
\* templateParams and no to_email; discount_claimed is not in the body
emailConfigs(p, b, e) ==
  [serviceProvider |->
     [serviceId |-> e.emailjs.SERVICE_PROVIDER_SERVICE_ID,
      templateId |-> e.emailjs.SERVICE_PROVIDER_TEMPLATE_ID,
      publicKey |-> e.emailjs.SERVICE_PROVIDER_PUBLIC_KEY,
      templateParams |->
        IF p = "part_002"
        THEN [client_name |-> b.name,
              client_email |-> b.email,
              client_phone |-> OrElse(b.phone, <<"Not provided">>),
              service_details |-> b.message,
              address |-> OrElse(b.address, <<"Not provided">>),
              discount_claimed |-> <<"No">>]
        ELSE [client_name |-> b.name,
              client_email |-> b.email,
              client_phone |-> OrElse(b.phone, <<"Not provided">>),
              service_details |-> b.message,
              subject |-> OrElse(b.subject, <<"New Service Request">>),
              address |-> OrElse(b.address, <<"Not provided">>),
              discount_claimed |-> <<>>]],
   client |->
     [serviceId |-> e.emailjs.SERVICE_PROVIDER_SERVICE_ID,
      templateId |-> e.emailjs.CLIENT_TEMPLATE_ID,
      publicKey |-> e.emailjs.SERVICE_PROVIDER_PUBLIC_KEY,
      templateParams |->
        IF p = "part_002"
        THEN [client_name |-> b.name,
              to_email |-> b.email,
              service_details |-> b.message]
        ELSE [client_name |-> b.name,
              subject |-> OrElse(b.subject, <<"Service Request">>),
              service_details |-> b.message]]]

\* res.status(200).json({success: true, emailConfigs})
prepareSuccess(p, b, e) ==
  [NoResponse EXCEPT
     !.status = 200, !.keys = {"success", "emailConfigs"}, !.success = TRUE,
     !.configs = emailConfigs(p, b, e)]

emailjsConfig_WithPrivateKey(e) ==
  [serviceProvider |->
     [serviceId |-> e.emailjs.SERVICE_PROVIDER_SERVICE_ID,
      templateId |-> e.emailjs.SERVICE_PROVIDER_TEMPLATE_ID,
      publicKey |-> e.emailjs.PRIVATE_KEY,
      defaultReplyTo |-> e.emailjs.SERVICE_PROVIDER_DEFAULT_REPLY_TO],
   client |->
     [serviceId |-> e.emailjs.SERVICE_PROVIDER_SERVICE_ID,
      templateId |-> e.emailjs.CLIENT_TEMPLATE_ID,
      publicKey |-> e.emailjs.PRIVATE_KEY]]

\* GET /api/emailjs-config: the object of res.status(200).json
emailjsConfig(e) ==
  [serviceProvider |->
     [serviceId |-> e.emailjs.SERVICE_PROVIDER_SERVICE_ID,
      templateId |-> e.emailjs.SERVICE_PROVIDER_TEMPLATE_ID,
      publicKey |-> e.emailjs.SERVICE_PROVIDER_PUBLIC_KEY,
      defaultReplyTo |-> e.emailjs.SERVICE_PROVIDER_DEFAULT_REPLY_TO],
   client |->
     [serviceId |-> e.emailjs.SERVICE_PROVIDER_SERVICE_ID,
      templateId |-> e.emailjs.CLIENT_TEMPLATE_ID,
      publicKey |-> e.emailjs.SERVICE_PROVIDER_PUBLIC_KEY]]

prepareMissingResponse ==
  [NoResponse EXCEPT
     !.status = 400, !.keys = {"success", "message"},
     !.message = "Missing required fields: name, email, message"]

\* (the catch block of /api/prepare-email answers 500 with error.message; no
\* statement of its try block throws, so it has no action here)

----------------------------------------------------------------------------
(* Actions *)

Set(i, r) == reqs' = [reqs EXCEPT ![i] = r]

InFlight(ip, pc) == Cardinality({j \in DOMAIN reqs : reqs[j].ip = ip /\ reqs[j].pc = pc})

\* the top of the program: index.js exits when a required variable is missing,
\* otherwise the program reaches app.listen
Start ==
  /\ server = "starting"
  /\ server' = IF program = "index.js" /\ missing(env) # {} THEN "exited" ELSE "listening"
  /\ UNCHANGED <<program, env, pool, limiters, reqs>>

\* a request arrives; gcap and ecap bound the requests of one window
Arrive(i, gcap, ecap, origins, endpoints, sizes) ==
  /\ server = "listening"
  /\ reqs[i].pc = "idle"
  /\ \E ip \in IPs, ep \in endpoints, o \in origins, size \in sizes :
       /\ program = "index.js" =>
            /\ generalHits[ip] + InFlight(ip, "generalLimiter") < gcap
            /\ ep \in MailEndpoints => emailHits[ip] < ecap
       /\ Set(i, [Idle EXCEPT
                    !.pc = IF program = "index.js" THEN "generalLimiter"
                           ELSE "bodyParser",
                    !.ip = ip, !.endpoint = ep, !.origin = o, !.size = size])
  /\ UNCHANGED <<program, env, server, pool, limiters>>

\* app.use(generalLimiter)
GeneralLimiter(i) ==
  LET r == reqs[i]
      totalHits == generalHits[r.ip] + 1
  IN  /\ r.pc = "generalLimiter"
      /\ generalHits' = [generalHits EXCEPT ![r.ip] = totalHits]
      /\ generalAdmitted' =
           [generalAdmitted EXCEPT ![r.ip] = @ + IF generalLimiter(totalHits) THEN 1 ELSE 0]
      /\ IF generalLimiter(totalHits)
         THEN Set(i, [r EXCEPT !.pc = "cors"])
         ELSE Set(i, Respond(r, [NoResponse EXCEPT
                !.status = 429, !.keys = {"message"},
                !.message = "Too many requests, please try again later."]))
      /\ UNCHANGED <<program, env, server, pool, emailHits, emailAdmitted, emailRefilled,
                   emailLog>>

\* app.use(cors({origin: ...}))
Cors(i) ==
  LET r == reqs[i]
  IN  /\ r.pc = "cors"
      /\ IF corsOrigin(r.origin, env)
         THEN Set(i, [r EXCEPT !.pc = "bodyParser"])
         ELSE Set(i, globalErrorHandler(r, CorsError))
      /\ UNCHANGED <<program, env, server, pool, limiters>>

\* after the body parser: the route, or express's 404
Route(r) ==
  IF r.endpoint \in MailEndpoints
  THEN [r EXCEPT !.pc = "emailLimiter"]
  ELSE Respond(r, [NoResponse EXCEPT !.status = 404])

\* app.use(bodyParser.json({limit: '100kb', verify}))
BodyParser(i, few) ==
  LET r == reqs[i]
  IN  /\ r.pc = "bodyParser"
      /\ program = "index.js"
      /\ IF bodyTooLarge(r.size)
         THEN Set(i, globalErrorHandler(r,
                       IF r.size > 100 * 1024 THEN LimitError ELSE VerifyError))
         ELSE \/ \E b \in (IF few THEN FewBodies(r.endpoint, r.size)
                               ELSE Bodies(r.endpoint, r.size)) :
                   Set(i, Route([r EXCEPT !.raw = b, !.body = b, !.hasBody = TRUE]))
              \/ /\ r.size = SmallBody
                 /\ Set(i, globalErrorHandler(r, ParseError))
      /\ UNCHANGED <<program, env, server, pool, limiters>>

\* history of the mail limiter's window: nothing let through yet
NoLog == [send |-> 0, support |-> 0, invalid |-> 0]

\* history: the limiter lets request r through
Logged(l, r) ==
  [send |-> l.send + (IF r.endpoint = "/send-email" THEN 1 ELSE 0),
   support |-> l.support + (IF r.endpoint = "/support-email" THEN 1 ELSE 0),
   invalid |-> l.invalid +
               (IF hasErrors(IF r.endpoint = "/send-email"
                             THEN serviceRequestValidation(r.body)
                             ELSE supportRequestValidation(r.body))
                THEN 1 ELSE 0)]

EmailLimiter_PerRoute(i, log) ==
  LET r == reqs[i]
      totalHits == 1 + IF r.endpoint = "/send-email" THEN emailLog[r.ip].send
                       ELSE emailLog[r.ip].support
  IN  /\ r.pc = "emailLimiter"
      /\ emailLog' = IF log /\ emailLimiter(totalHits)
                     THEN [emailLog EXCEPT ![r.ip] = Logged(@, r)] ELSE emailLog
      /\ emailHits' = [emailHits EXCEPT ![r.ip] = @ + 1]
      /\ emailAdmitted' =
           [emailAdmitted EXCEPT ![r.ip] = @ + IF emailLimiter(totalHits) THEN 1 ELSE 0]
      /\ emailRefilled' = [emailRefilled EXCEPT ![r.ip] = FALSE]
      /\ IF emailLimiter(totalHits)
         THEN Set(i, [r EXCEPT !.pc = "validation",
                               !.afterRefill = emailRefilled[r.ip]])
         ELSE Set(i, Respond(r, [NoResponse EXCEPT
                !.status = 429, !.keys = {"error"},
                !.error = "Too many requests from this IP, please try again after 15 minutes"]))
      /\ UNCHANGED <<program, env, server, pool, generalHits, generalAdmitted>>

EmailLimiter_SkipFailed(i, log) ==
  LET r == reqs[i]
      failed == hasErrors(IF r.endpoint = "/send-email"
                          THEN serviceRequestValidation(r.body)
                          ELSE supportRequestValidation(r.body))
      totalHits == emailHits[r.ip] + 1
      counted == IF failed /\ emailLimiter(totalHits) THEN 0 ELSE 1
  IN  /\ r.pc = "emailLimiter"
      /\ emailLog' = IF log /\ emailLimiter(totalHits)
                     THEN [emailLog EXCEPT ![r.ip] = Logged(@, r)] ELSE emailLog
      /\ emailHits' = [emailHits EXCEPT ![r.ip] = @ + counted]
      /\ emailAdmitted' =
           [emailAdmitted EXCEPT ![r.ip] = @ + IF emailLimiter(totalHits) THEN counted ELSE 0]
      /\ emailRefilled' = [emailRefilled EXCEPT ![r.ip] = FALSE]
      /\ IF emailLimiter(totalHits)
         THEN Set(i, [r EXCEPT !.pc = "validation",
                               !.afterRefill = emailRefilled[r.ip]])
         ELSE Set(i, Respond(r, [NoResponse EXCEPT
                !.status = 429, !.keys = {"error"},
                !.error = "Too many requests from this IP, please try again after 15 minutes"]))
      /\ UNCHANGED <<program, env, server, pool, generalHits, generalAdmitted>>

\* app.post(.., emailLimiter, ..); `log` keeps the history of the window
EmailLimiter(i, log) ==
  LET r == reqs[i]
      totalHits == emailHits[r.ip] + 1
  IN  /\ r.pc = "emailLimiter"
      /\ emailLog' = IF log /\ emailLimiter(totalHits)
                     THEN [emailLog EXCEPT ![r.ip] = Logged(@, r)] ELSE emailLog
      /\ emailHits' = [emailHits EXCEPT ![r.ip] = totalHits]
      /\ emailAdmitted' =
           [emailAdmitted EXCEPT ![r.ip] = @ + IF emailLimiter(totalHits) THEN 1 ELSE 0]
      /\ emailRefilled' = [emailRefilled EXCEPT ![r.ip] = FALSE]
      /\ IF emailLimiter(totalHits)
         THEN Set(i, [r EXCEPT !.pc = "validation",
                               !.afterRefill = emailRefilled[r.ip]])
         ELSE Set(i, Respond(r, [NoResponse EXCEPT
                !.status = 429, !.keys = {"error"},
                !.error = "Too many requests from this IP, please try again after 15 minutes"]))
      /\ UNCHANGED <<program, env, server, pool, generalHits, generalAdmitted>>

\* the validation chains: they record the errors and sanitize req.body
Validation(i) ==
  LET r == reqs[i]
  IN  /\ r.pc = "validation"
      /\ Set(i, [r EXCEPT
                   !.pc = "handler", !.validated = TRUE,
                   !.errors = IF r.endpoint = "/send-email"
                              THEN serviceRequestValidation(r.body)
                              ELSE supportRequestValidation(r.body),
                   !.body = IF r.endpoint = "/send-email"
                            THEN serviceRequestSanitized(r.body)
                            ELSE supportRequestSanitized(r.body)])
      /\ UNCHANGED <<program, env, server, pool, limiters>>

Handler_NoReturn(i, times) ==
  LET r == reqs[i]
      a == IF hasErrors(r.errors)
           THEN [r EXCEPT !.resp = validationResponse(r.errors), !.nResp = r.nResp + 1]
           ELSE r
  IN  /\ r.pc = "handler"
      /\ program = "index.js"
      /\ \E now \in times :
           \E data \in {IF r.endpoint = "/send-email"
                         THEN serviceData(r.body) ELSE supportData(r.body)} :
             Set(i, sendToCompany([a EXCEPT !.data = data], env, now))
      /\ UNCHANGED <<program, env, server, pool, limiters>>

\* the route handler up to its first await
Handler(i, times) ==
  LET r == reqs[i]
  IN  /\ r.pc = "handler"
      /\ program = "index.js"
      /\ IF hasErrors(r.errors)
         THEN Set(i, Respond(r, validationResponse(r.errors)))
         ELSE \E now \in times :
                \E data \in {IF r.endpoint = "/send-email"
                              THEN serviceData(r.body) ELSE supportData(r.body)} :
                  Set(i, sendToCompany([r EXCEPT !.data = data], env, now))
      /\ UNCHANGED <<program, env, server, pool, limiters>>

\* the SMTP server stops answering while transporter.sendMail is pending
TransportHangs(i) ==
  LET r == reqs[i]
      n == Len(r.calls)
  IN  /\ r.pc = "sendEmail"
      /\ r.calls[n].sent /\ ~r.calls[n].hung
      /\ Set(i, [r EXCEPT !.calls[n].hung = TRUE])
      /\ UNCHANGED <<program, env, server, pool, limiters>>

\* a handler calls transporter.sendMail: the mail joins the queue of the pool
SendMail ==
  /\ server = "listening"
  /\ pool.issued < MaxSends
  /\ pool' = [pool EXCEPT
        !.issued = @ + 1,
        !.queue = Append(@, Available(pool) = {} /\ ~CanOpen(pool))]
  /\ UNCHANGED <<program, env, server, limiters, reqs>>

\* the pool gives the oldest queued mail to a free connection, or to a new
\* connection when it may open one; otherwise the mail stays queued
processMessages ==
  /\ pool.queue # <<>>
  /\ IF Available(pool) # {}
     THEN pool' = [pool EXCEPT
            !.connections[First(Available(pool))] =
               [@ EXCEPT !.busy = TRUE, !.waited = Head(pool.queue)],
            !.queue = Tail(@)]
     ELSE /\ CanOpen(pool)
          /\ pool' = [pool EXCEPT
                !.connections = Append(@, [messages |-> 0, busy |-> TRUE,
                                           waited |-> Head(pool.queue)]),
                !.queue = Tail(@)]
  /\ UNCHANGED <<program, env, server, limiters, reqs>>

\* connection k is done with its mail: the callback of sendMail runs; the
\* connection is free again, or it is closed when it is broken, not pooled,
\* or has carried maxMessages
Sent(k, outcome) ==
  /\ k \in DOMAIN pool.connections
  /\ pool.connections[k].busy
  /\ LET c == pool.connections[k]
         n == c.messages + 1
         closes == \/ outcome = "connection error"
                   \/ ~transporter.pool
                   \/ n >= transporter.maxMessages
     IN  pool' = [pool EXCEPT
           !.finished = @ + 1,
           !.last = [waited |-> c.waited, success |-> outcome = "sent", nth |-> n],
           !.connections = IF closes THEN Remove(@, k)
                           ELSE [@ EXCEPT ![k] = [messages |-> n, busy |-> FALSE,
                                                  waited |-> FALSE]]]
  /\ UNCHANGED <<program, env, server, limiters, reqs>>

\* transporter.sendMail resolves or rejects (a hung send only by its time-out),
\* or the recipient was refused; sendEmail returns and the handler goes on.
\* (The catch block of sendEmail calls to.replace: with a `to` that is not a
\* string it throws, sendEmail rejects and the catch block of the handler
\* answers.)
SendEmailReturns(i, times) ==
  LET r == reqs[i]
      call == r.calls[Len(r.calls)]
      failed == SendFailure(NewErrorId(r))
      q == [r EXCEPT !.nextId = r.nextId + 1]
  IN  /\ r.pc = "sendEmail"
      /\ \E now \in times :
           \/ /\ call.sent /\ ~call.hung
              /\ Set(i, afterSendEmail(r, env, SendSuccess, now))
           \/ /\ call.sent
              /\ call.hung => transporter.socketTimeout > 0
              /\ \E error \in ProviderErrors : Set(i, afterSendEmail(q, env, failed, now))
           \/ /\ ~call.sent
              /\ Set(i, IF call.to = Undefined THEN handlerCatch(r)
                        ELSE afterSendEmail(q, env, failed, now))
      /\ UNCHANGED <<program, env, server, pool, limiters>>

\* express.json() of the EmailJS programs: req.body is the parsed object, {}
\* when the request has no body
LegacyBodyParser(i) ==
  LET r == reqs[i]
  IN  /\ r.pc = "bodyParser"
      /\ program # "index.js"
      /\ \E b \in Bodies(r.endpoint, r.size) :
           Set(i, [r EXCEPT !.pc = "handler", !.raw = b, !.body = b, !.hasBody = TRUE])
      /\ UNCHANGED <<program, env, server, pool, limiters>>

\* /api/send-email of part_001 and part_003 up to the await of emailjs.send
EmailjsHandler(i) ==
  LET r == reqs[i]
  IN  /\ r.pc = "handler"
      /\ program \in {"part_001", "part_003"}
      /\ IF program = "part_001" /\ ~env.emailjsKeys
         THEN Set(i, Respond(r, emailjsCatch(program, ConfigError)))
         ELSE Set(i, [r EXCEPT
                 !.pc = "emailjs",
                 !.calls = Append(r.calls,
                    [leg |-> "emailjs", to |-> Undefined, subject |-> Undefined,
                     content |-> NoContent, hung |-> FALSE,
                     replyTo |-> r.body.email, sent |-> TRUE,
                     mailSubject |-> Undefined])])
      /\ UNCHANGED <<program, env, server, pool, limiters>>

\* emailjs.send resolves or rejects
EmailjsReturns(i) ==
  LET r == reqs[i]
  IN  /\ r.pc = "emailjs"
      /\ \/ Set(i, Respond([r EXCEPT !.results = Append(r.results, SendSuccess)],
                           emailjsSuccess))
         \/ \E error \in ProviderErrors :
              Set(i, Respond([r EXCEPT !.results = Append(r.results, SendFailure(0))],
                             emailjsCatch(program, error)))
      /\ UNCHANGED <<program, env, server, pool, limiters>>

\* /api/prepare-email of part_002 and part_004: no await, no send
PrepareHandler(i) ==
  LET r == reqs[i]
  IN  /\ r.pc = "handler"
      /\ program \in {"part_002", "part_004"}
      /\ r.endpoint = "/api/prepare-email"
      /\ IF prepareMissing(program, r.body)
         THEN Set(i, Respond(r, prepareMissingResponse))
         ELSE Set(i, Respond(r, prepareSuccess(program, r.body, env)))
      /\ UNCHANGED <<program, env, server, pool, limiters>>

\* GET /api/emailjs-config of part_002 and part_004
ConfigHandler(i) ==
  LET r == reqs[i]
  IN  /\ r.pc = "handler"
      /\ program \in {"part_002", "part_004"}
      /\ r.endpoint = "/api/emailjs-config"
      /\ Set(i, Respond(r, [NoResponse EXCEPT
                !.status = 200, !.keys = {"serviceProvider", "client"},
                !.configs = emailjsConfig(env)]))
      /\ UNCHANGED <<program, env, server, pool, limiters>>

\* the connection of an answered request goes away
Recycle(i) ==
  /\ reqs[i].pc = "done"
  /\ Set(i, Idle)
  /\ UNCHANGED <<program, env, server, pool, limiters>>

\* the window of the general limiter elapses
GeneralWindowElapses ==
  /\ \E ip \in IPs : generalHits[ip] > 0
  /\ generalHits' = [ip \in IPs |-> 0]
  /\ generalAdmitted' = [ip \in IPs |-> 0]
  /\ UNCHANGED <<program, env, server, pool, emailHits, emailAdmitted, emailRefilled,
               emailLog, reqs>>

\* the window of the mail limiter elapses
EmailWindowElapses ==
  /\ \E ip \in IPs : emailHits[ip] > 0
  /\ emailHits' = [ip \in IPs |-> 0]
  /\ emailAdmitted' = [ip \in IPs |-> 0]
  /\ emailRefilled' = [ip \in IPs |-> emailHits[ip] > EmailMax]
  /\ emailLog' = [ip \in IPs |-> NoLog]
  /\ UNCHANGED <<program, env, server, pool, generalHits, generalAdmitted, reqs>>

----------------------------------------------------------------------------
(* Specifications *)

PipelineSlots == {1}
LimiterSlots == {1, 2}

InitWith(programs, slots, accounts) ==
  /\ program \in programs
  /\ env \in {e \in Envs(program) : e.SUPPORT_ACCOUNT \in accounts \cup {Undefined}}
  /\ server = "starting"
  /\ generalHits = [ip \in IPs |-> 0]
  /\ emailHits = [ip \in IPs |-> 0]
  /\ generalAdmitted = [ip \in IPs |-> 0]
  /\ emailAdmitted = [ip \in IPs |-> 0]
  /\ emailRefilled = [ip \in IPs |-> FALSE]
  /\ emailLog = [ip \in IPs |-> NoLog]
  /\ reqs = [i \in slots |-> Idle]
  /\ pool = createPool(0)

\* the request pipeline of every program, one request at a time
Init == InitWith(Programs, PipelineSlots, SupportAccounts)

Next ==
  \/ \E i \in PipelineSlots :
       \/ Arrive(i, MaxArrivals, MaxArrivals, Origins, Endpoints(program),
                 IF program = "index.js" THEN BodySizes ELSE {SmallBody})
       \/ GeneralLimiter(i)
       \/ Cors(i)
       \/ BodyParser(i, FALSE)
       \/ EmailLimiter(i, FALSE)
       \/ Validation(i)
       \/ Handler(i, {StartTime})
       \/ SendEmailReturns(i, {StartTime})
       \/ LegacyBodyParser(i)
       \/ EmailjsHandler(i)
       \/ EmailjsReturns(i)
       \/ PrepareHandler(i)
       \/ ConfigHandler(i)
       \/ Recycle(i)
  \/ GeneralWindowElapses
  \/ EmailWindowElapses
  \/ Start

Spec == Init /\ [][Next]_vars

\* index.js under concurrent requests, up to the limits of both limiters
InitLimits == InitWith({"index.js"}, LimiterSlots, {S_SUPPORT})

NextLimits ==
  \/ \E i \in LimiterSlots :
       \/ Arrive(i, GeneralMax + MaxOver, EmailMax + MaxOver, {"none"},
                 {"/send-email"}, {SmallBody})
       \/ GeneralLimiter(i)
       \/ Cors(i)
       \/ BodyParser(i, TRUE)
       \/ EmailLimiter(i, FALSE)
       \/ Validation(i)
       \/ Handler(i, {StartTime})
       \/ Recycle(i)
  \/ GeneralWindowElapses
  \/ EmailWindowElapses
  \/ Start

SpecLimits == InitLimits /\ [][NextLimits]_vars

\* index.js with one client that submits valid and invalid forms to both mail
\* endpoints until its quota is used up; the history of the window is kept
InitQuota == InitWith({"index.js"}, PipelineSlots, {S_SUPPORT})

NextQuota ==
  \/ \E i \in PipelineSlots :
       \/ Arrive(i, EmailMax + MaxOver, EmailMax + MaxOver, {"none"},
                 MailEndpoints, {SmallBody, 100 * 1024 - 1})
       \/ GeneralLimiter(i)
       \/ Cors(i)
       \/ BodyParser(i, TRUE)
       \/ EmailLimiter(i, TRUE)
       \/ Validation(i)
       \/ Handler(i, {StartTime})
       \/ SendEmailReturns(i, {StartTime})
       \/ Recycle(i)
  \/ GeneralWindowElapses
  \/ EmailWindowElapses
  \/ Start

SpecQuota == InitQuota /\ [][NextQuota]_vars

\* index.js while the wall clock moves: a few requests, rendered at any instant
InitRender == InitWith({"index.js"}, PipelineSlots, {S_SUPPORT})

NextRender ==
  \/ \E i \in PipelineSlots :
       \/ Arrive(i, MaxRendered, MaxRendered, {"none"}, MailEndpoints, {SmallBody})
       \/ GeneralLimiter(i)
       \/ Cors(i)
       \/ BodyParser(i, FALSE)
       \/ EmailLimiter(i, FALSE)
       \/ Validation(i)
       \/ Handler(i, Times)
       \/ SendEmailReturns(i, Times)
       \/ Recycle(i)
  \/ Start

SpecRender == InitRender /\ [][NextRender]_vars

\* index.js with an SMTP server that may hang; the event loop runs every step
\* that is ready, and the time-outs of the transport fire
InitLive == InitWith({"index.js"}, PipelineSlots, {S_SUPPORT})

NextLive ==
  \/ \E i \in PipelineSlots :
       \/ Arrive(i, MaxRendered, MaxRendered, {"none"}, MailEndpoints, {SmallBody})
       \/ GeneralLimiter(i)
       \/ Cors(i)
       \/ BodyParser(i, FALSE)
       \/ EmailLimiter(i, FALSE)
       \/ Validation(i)
       \/ Handler(i, {StartTime})
       \/ TransportHangs(i)
       \/ SendEmailReturns(i, {StartTime})
       \/ Recycle(i)
  \/ Start

Progress(i) ==
  \/ GeneralLimiter(i) \/ Cors(i) \/ BodyParser(i, FALSE) \/ EmailLimiter(i, FALSE)
  \/ Validation(i) \/ Handler(i, {StartTime}) \/ SendEmailReturns(i, {StartTime})

SpecLive ==
  InitLive /\ [][NextLive]_vars /\ \A i \in PipelineSlots : WF_vars(Progress(i))

\* the pool of index.js under more concurrent sends than it has connections;
\* the pool serves its queue, and every mail on a connection ends
InitPool ==
  /\ program = "index.js"
  /\ env \in {e \in Envs(program) : missing(e) = {} /\ e.SUPPORT_ACCOUNT = S_SUPPORT}
  /\ server = "starting"
  /\ generalHits = [ip \in IPs |-> 0]
  /\ emailHits = [ip \in IPs |-> 0]
  /\ generalAdmitted = [ip \in IPs |-> 0]
  /\ emailAdmitted = [ip \in IPs |-> 0]
  /\ emailRefilled = [ip \in IPs |-> FALSE]
  /\ emailLog = [ip \in IPs |-> NoLog]
  /\ reqs = [i \in {} |-> Idle]
  /\ \E carried \in PoolStarts : pool = createPool(carried)

NextPool ==
  \/ Start
  \/ SendMail
  \/ processMessages
  \/ \E k \in 1..MaxSends, outcome \in Outcomes : Sent(k, outcome)

SpecPool ==
  /\ InitPool /\ [][NextPool]_vars
  /\ WF_vars(processMessages)
  /\ \A k \in 1..transporter.maxConnections :
       WF_vars(\E outcome \in Outcomes : Sent(k, outcome))

----------------------------------------------------------------------------
(* Claims *)

Requests == {reqs[i] : i \in DOMAIN reqs}

Answered(r) == r.pc = "done"

\* the fields that hold the name, the address and the message of a submission
RequiredFields(endpoint) ==
  CASE endpoint = "/send-email" -> {"firstName", "lastName", "email", "description"}
    [] OTHER -> {"name", "email", "message"}

\* a required field is absent or the empty string
MissingRequired(r) == \E f \in RequiredFields(r.endpoint) : ToStr(r.raw[f]) = <<>>

\* the handlers that check their input
Validating(r) ==
  \/ program = "index.js" /\ r.validated
  \/ /\ program = "part_002" /\ r.endpoint = "/api/prepare-email"
     /\ r.pc \in {"handler", "done"}

Valid(r) == program = "index.js" /\ r.validated /\ r.errors = {}

\* C2: every valid request to /send-email or /support-email makes exactly two
\* sendEmail calls, one after the other: first the company notification, then
\* the client confirmation, which is attempted even when the first call failed.
C2_TwoSequentialDispatches ==
  \A r \in Requests :
    program = "index.js" =>
      /\ Len(r.calls) <= 2
      /\ Len(r.results) <= Len(r.calls) /\ Len(r.calls) <= Len(r.results) + 1
      /\ r.pc = "sendEmail" <=> Len(r.calls) = Len(r.results) + 1
      /\ r.calls # <<>> =>
           /\ Valid(r)
           /\ r.calls[1].leg = "company"
           /\ StartsWith(r.calls[1].subject,
                         IF r.endpoint = "/send-email" THEN SUBJ_SERVICE ELSE SUBJ_SUPPORT)
      /\ Len(r.calls) = 2 =>
           /\ r.calls[2].leg = "client"
           /\ r.calls[2].subject = clientSubject(r.endpoint)
      /\ (Valid(r) /\ r.pc # "handler") => r.calls # <<>>
      /\ (Valid(r) /\ r.results # <<>>) => Len(r.calls) = 2
      /\ (Valid(r) /\ Answered(r)) => Len(r.calls) = 2 /\ Len(r.results) = 2

C2_Witness ==
  \E r \in Requests :
    /\ Valid(r) /\ Answered(r)
    /\ ~r.results[1].success
    /\ Len(r.calls) = 2 /\ r.calls[2].leg = "client" /\ r.calls[2].sent

\* a response that follows dispatch
Dispatched(r) == program = "index.js" /\ Answered(r) /\ r.calls # <<>>

\* C3: the response after dispatch has status 200 whether the sends succeeded
\* or not, and its success flag is true only if both sends succeeded; any
\* failure shows as success false in the body.
C3_AggregateStatusIs200 ==
  \A r \in Requests :
    Dispatched(r) =>
      /\ r.resp.status = 200
      /\ "success" \in r.resp.keys
      /\ r.resp.success <=> (r.results[1].success /\ r.results[2].success)
      /\ ~r.resp.success => r.resp.message = "Partial email failure"

C3_Witness ==
  \E r \in Requests :
    /\ Dispatched(r) /\ r.resp.status = 200 /\ ~r.resp.success
    /\ r.results[1].success /\ ~r.results[2].success

\* the sends of a request that failed
Failed(r) == {k \in 1..Len(r.results) : ~r.results[k].success}

\* C4: the dispatch response has the errorIds field exactly when a send
\* failed, holding one identifier for each failed send and nothing else.
C4_ErrorIdsIffFailure ==
  \A r \in Requests :
    /\ Dispatched(r) =>
         /\ "errorIds" \in r.resp.keys <=> Failed(r) # {}
         /\ Len(r.resp.errorIds) = Cardinality(Failed(r))
         /\ \A k \in Failed(r) :
              \E j \in 1..Len(r.resp.errorIds) : r.resp.errorIds[j] = r.results[k].errorId
         /\ \A j, k \in 1..Len(r.resp.errorIds) :
              r.resp.errorIds[j] = r.resp.errorIds[k] => j = k
    /\ (program = "index.js" /\ "errorIds" \in r.resp.keys) => Dispatched(r)

C4_Witness ==
  \E r \in Requests :
    /\ Dispatched(r) /\ Failed(r) = {1, 2}
    /\ Len(r.resp.errorIds) = 2 /\ "errorIds" \in r.resp.keys

\* C5: the first send always goes to the configured SUPPORT_ACCOUNT, whatever
\* the request holds; the second goes to the submitted address, and only once
\* that address has passed validation and been normalized.
C5_Recipients ==
  \A r \in Requests :
    program = "index.js" =>
      \A k \in 1..Len(r.calls) :
        /\ r.calls[k].leg = "company" => r.calls[k].to = env.SUPPORT_ACCOUNT
        /\ r.calls[k].leg = "client" =>
             /\ r.validated /\ "email" \notin r.errors
             /\ isEmail(r.raw.email)
             /\ r.calls[k].to = ToLowerCase(r.raw.email)
             /\ r.calls[k].to = r.body.email
        /\ r.calls[k].to = r.body.email => (k = 2 \/ r.body.email = env.SUPPORT_ACCOUNT)

C5_Witness ==
  \E r \in Requests :
    /\ program = "index.js" /\ Len(r.calls) = 2
    /\ r.raw.email = S_EMAIL_UPPER
    /\ r.calls[1].to = env.SUPPORT_ACCOUNT /\ r.calls[1].to # r.raw.email
    /\ r.calls[2].to = S_EMAIL

\* what a failing mail provider says about itself
RawProviderTexts == UNION {{e.message, e.code} : e \in ProviderErrors}

\* C6: a failed outbound mail call is caught and reaches the HTTP caller only
\* as an opaque error identifier: the failed call returns {success: false,
\* errorId} and no response holds the provider's raw message or code.
C6_ProviderErrorsStayInside ==
  \A r \in Requests :
    /\ \A k \in Failed(r) : program = "index.js" => r.results[k].errorId > 0
    /\ (Answered(r) /\ r.calls # <<>>) =>
         /\ r.resp.error \notin RawProviderTexts
         /\ r.resp.message \notin RawProviderTexts
         /\ r.resp.details \cap RawProviderTexts = {}

\* C7: an exception that is no validation failure, no oversized payload and no
\* transport error is answered 500 with an opaque error identifier and a
\* generic message, never with the exception's own message.
C7_InternalErrorsAreOpaque ==
  \A r \in Requests :
    (Answered(r) /\ r.resp.status = 500 /\ r.calls = <<>>) =>
       /\ "errorId" \in r.resp.keys /\ r.resp.errorId > 0
       /\ r.resp.error = "Internal server error"
       /\ r.resp.details = {}

\* a request the mail limiter has turned away
EmailLimited(r) ==
  /\ program = "index.js" /\ Answered(r)
  /\ r.resp.status = 429 /\ r.resp.keys = {"error"}

\* C8: of the requests of one IP to a mail endpoint in one window the first
\* five pass the limiter; the sixth and every later one is answered 429 and
\* is neither validated nor dispatched; when the window elapses the counter
\* is reset and the next request passes again.
C8_EmailLimiterWindow ==
  /\ [](\A r \in Requests : EmailLimited(r) => ~r.validated /\ r.calls = <<>>)
  /\ [][\A i \in DOMAIN reqs :
          (reqs[i].pc = "emailLimiter" /\ reqs'[i].pc # "emailLimiter") =>
             /\ emailHits'[reqs[i].ip] = emailHits[reqs[i].ip] + 1
             /\ IF emailHits[reqs[i].ip] < EmailMax
                THEN reqs'[i].pc = "validation"
                ELSE /\ reqs'[i].pc = "done"
                     /\ reqs'[i].resp.status = 429
                     /\ ~reqs'[i].validated /\ reqs'[i].calls = <<>>]_vars
  /\ [][\A ip \in IPs : emailHits'[ip] < emailHits[ip] => emailHits'[ip] = 0]_vars

C8_Witness ==
  \E r \in Requests :
    /\ program = "index.js" /\ r.afterRefill
    /\ r.validated /\ emailHits[r.ip] = 1

\* a request the general limiter has turned away
GeneralLimited(r) ==
  /\ program = "index.js" /\ Answered(r)
  /\ r.resp.status = 429 /\ r.resp.keys = {"message"}

\* C9: whatever the interleaving of the concurrent requests of one IP, in one
\* window at most 5 requests pass the mail limiter and at most 100 the
\* general limiter: two requests never share the last free slot.
C9_LimitsHoldUnderConcurrency ==
  \A ip \in IPs :
    /\ emailAdmitted[ip] <= EmailMax
    /\ generalAdmitted[ip] <= GeneralMax
    /\ emailAdmitted[ip] = IF emailHits[ip] <= EmailMax THEN emailHits[ip] ELSE EmailMax
    /\ generalAdmitted[ip] =
         IF generalHits[ip] <= GeneralMax THEN generalHits[ip] ELSE GeneralMax

C9_Witness ==
  \E i, j \in DOMAIN reqs :
    /\ i # j /\ reqs[i].ip = reqs[j].ip
    /\ reqs[i].pc = "validation" /\ EmailLimited(reqs[j])
    /\ emailAdmitted[reqs[i].ip] = EmailMax
    /\ emailHits[reqs[i].ip] = EmailMax + 1

\* an oversized request answered before the body parser saw it
RejectedEarlier(r) == GeneralLimited(r) \/ ~corsOrigin(r.origin, env)

\* C10: a request whose body is larger than 100KB is answered 413 with a
\* structured error body before validation: it is never validated and no
\* sendEmail call is made for it.
C10_OversizedIsRejectedFirst ==
  \A r \in Requests :
    (program = "index.js" /\ r.size > 100 * 1024) =>
       /\ ~r.validated /\ ~r.hasBody /\ r.errors = {} /\ r.calls = <<>>
       /\ r.pc \in {"generalLimiter", "cors", "bodyParser", "done"}
       /\ Answered(r) =>
            \/ RejectedEarlier(r)
            \/ /\ r.resp.status = 413
               /\ {"success", "error"} \subseteq r.resp.keys
               /\ ~r.resp.success
               /\ r.resp.error = "Request payload too large. Maximum size is 100KB."

C10_Witness ==
  \E r \in Requests :
    /\ program = "index.js" /\ r.size = 100 * 1024 + 1
    /\ Answered(r) /\ r.resp.status = 413 /\ ~r.validated

OverMailLimit(r) ==
  /\ program = "index.js" /\ r.pc = "bodyParser"
  /\ r.endpoint \in MailEndpoints /\ emailHits[r.ip] >= EmailMax

\* C11: the CORS / rate-limit gate comes first: a request from a disallowed
\* origin or over the limit of the general or of the mail limiter is turned
\* away before its body is parsed or measured, validated or dispatched, so an
\* over-limit request gets the rate-limit answer whatever its body is.
C11_GateComesFirst ==
  /\ [](\A r \in Requests :
          (program = "index.js" /\ (~corsOrigin(r.origin, env) \/ GeneralLimited(r))) =>
             /\ ~r.hasBody /\ ~r.validated /\ r.calls = <<>>
             /\ r.pc \in {"generalLimiter", "cors", "done"}
             /\ Answered(r) => r.resp.status \in {429, 500})
  /\ [][\A i \in DOMAIN reqs :
          (OverMailLimit(reqs[i]) /\ reqs'[i] # reqs[i]) =>
             /\ reqs'[i].pc = "done"
             /\ reqs'[i].resp.status = 429
             /\ ~reqs'[i].hasBody]_vars

HasCRLF(s) == s # Undefined /\ \E i \in 1..Len(s) : s[i] \in {"\r", "\n"}

\* C13: the carriage returns and line feeds of a submitted name are removed
\* before the name is used in a header: neither the Reply-To nor the Subject
\* that sendEmail hands to the transport contains CR or LF.
C13_NoLineBreakInHeaders ==
  \A r \in Requests :
    \A k \in 1..Len(r.calls) :
      (program = "index.js" /\ r.calls[k].sent) =>
         /\ ~HasCRLF(r.calls[k].replyTo)
         /\ ~HasCRLF(r.calls[k].mailSubject)

\* the validator chain and the handler's sanitizers, run on a body
Sanitize(endpoint, b) ==
  IF endpoint = "/send-email"
  THEN serviceData(serviceRequestSanitized(b)).fields
  ELSE supportData(supportRequestSanitized(b)).fields

\* C14: sanitization is idempotent: the chain of trim, escape, tag stripping
\* and header-character stripping, run on its own output, returns that output
\* unchanged.
C14_SanitizationIsIdempotent ==
  \A r \in Requests :
    (Valid(r) /\ r.calls # <<>>) =>
       /\ r.data.fields = Sanitize(r.endpoint, r.raw)
       /\ Sanitize(r.endpoint, r.data.fields) = r.data.fields
       /\ validateName(validateName(r.data.name)) = validateName(r.data.name)

\* the slots of the templates that hold optional fields
OptionalSlots ==
  {"phone", "urgency", "preferredDate", "preferredTime", "headDate", "headTime",
   "subject", "deal"}

\* C15: the templates never throw on missing optional fields and write a
\* placeholder for every absent one: no rendered body has a gap or the text
\* of an undefined value where phone, urgency, preferred date, preferred
\* time, subject or deal amount belong.
C15_PlaceholdersForAbsentFields ==
  \A r \in Requests :
    \A k \in 1..Len(r.calls) :
      \A s \in DOMAIN r.calls[k].content.slots \cap OptionalSlots :
        LET v == r.calls[k].content.slots[s]
        IN  /\ v # <<>>
            /\ \A j \in 1..Len(v) : v[j] # "undefined"

\* the template of a send, rendered again for the same request
Render(r, k, submissionTime, now) ==
  IF r.calls[k].leg = "company"
  THEN IF r.endpoint = "/send-email"
       THEN createCompanyEmailTemplate(r.data.fields, r.data.name, now)
       ELSE createCompanySupportTemplate(r.data.fields, now)
  ELSE IF r.endpoint = "/send-email"
       THEN createConfirmationEmail(r.data.fields, r.data.name, submissionTime, now)
       ELSE createSupportConfirmation(r.data.fields, submissionTime, now)

\* C16: rendering is a pure function of the submission and the request
\* timestamp: rendered again with the same submission and timestamp, at any
\* instant of the wall clock, a template yields the body it yielded before.
C16_RenderingIsPure ==
  \A r \in Requests :
    \A k \in 1..Len(r.calls) :
      program = "index.js" =>
        \A now \in Times :
          Render(r, k, r.calls[k].content.stamp.submitted, now) = r.calls[k].content

\* C17: a send whose transport call hangs is ended by the transport's
\* time-out as a failed send: given that the time-out fires, every sendEmail
\* call returns a result, and every admitted request is answered.
C17_HungSendsEndAndRequestsAreAnswered ==
  /\ \A i \in PipelineSlots :
       (reqs[i].pc = "sendEmail") ~> (reqs[i].pc # "sendEmail")
  /\ \A i \in PipelineSlots :
       (reqs[i].pc \in {"validation", "handler", "sendEmail"}) ~> Answered(reqs[i])
  /\ [](\A r \in Requests : \A k \in 1..Len(r.results) :
          r.calls[k].hung => ~r.results[k].success)

C17_Witness ==
  \E r \in Requests :
    /\ Answered(r) /\ Len(r.results) = 2
    /\ r.calls[1].hung /\ ~r.results[1].success
    /\ r.resp.status = 200 /\ ~r.resp.success

Busy == {k \in DOMAIN pool.connections : pool.connections[k].busy}

\* C18: the pool never has more than 5 connections and never carries more than
\* 100 messages over one connection; a mail handed over while every
\* connection is busy stays queued until a connection is free and is then
\* carried by one: no mail is dropped (each is queued, on a connection, or
\* ended on a connection), and whenever mails are pending a moment comes at
\* which every mail handed over has ended on a connection.
C18_PoolIsBoundedAndQueues ==
  /\ [](/\ Len(pool.connections) <= 5
        /\ \A k \in DOMAIN pool.connections :
             /\ pool.connections[k].messages <= 100
             /\ pool.connections[k].busy => pool.connections[k].messages < 100
        /\ pool.last.nth <= 100
        /\ pool.finished > 0 => pool.last.nth >= 1
        /\ pool.issued = Len(pool.queue) + Cardinality(Busy) + pool.finished)
  /\ (pool.finished < pool.issued) ~> (pool.finished = pool.issued)

C18_Witness ==
  /\ pool.last.waited /\ pool.last.success
  /\ pool.last.nth = 100

\* the answered requests for the EmailJS configuration
ConfigRequests ==
  {r \in Requests : r.endpoint = "/api/emailjs-config" /\ Answered(r)}

\* C19: the response of GET /api/emailjs-config holds the public identifiers
\* of the configuration and nothing else: the service id, the template ids,
\* the public key and the default reply-to, each with the value the
\* configuration gives it, so that it is the same whatever the private key of
\* the process is; and no value in it is the private key.
C19_ConfigResponseIsPublic ==
  \A r \in ConfigRequests :
    LET c == r.resp.configs
        id == env.emailjs
    IN  /\ r.resp.status = 200
        /\ DOMAIN c = {"serviceProvider", "client"}
        /\ DOMAIN c.serviceProvider =
             {"serviceId", "templateId", "publicKey", "defaultReplyTo"}
        /\ DOMAIN c.client = {"serviceId", "templateId", "publicKey"}
        /\ c.serviceProvider.serviceId = id.SERVICE_PROVIDER_SERVICE_ID
        /\ c.serviceProvider.templateId = id.SERVICE_PROVIDER_TEMPLATE_ID
        /\ c.serviceProvider.publicKey = id.SERVICE_PROVIDER_PUBLIC_KEY
        /\ c.serviceProvider.defaultReplyTo = id.SERVICE_PROVIDER_DEFAULT_REPLY_TO
        /\ c.client.serviceId = id.SERVICE_PROVIDER_SERVICE_ID
        /\ c.client.templateId = id.CLIENT_TEMPLATE_ID
        /\ c.client.publicKey = id.SERVICE_PROVIDER_PUBLIC_KEY
        /\ \A part \in DOMAIN c : \A k \in DOMAIN c[part] :
             c[part][k] \notin PrivateKeys

C19_Witness ==
  \E r \in ConfigRequests :
    /\ program = "part_002"
    /\ env.emailjs.PRIVATE_KEY = <<"private-key-2">>
    /\ r.resp.status = 200

\* C20: a POST /api/prepare-email with name, email and message is answered 200
\* with success true and emailConfigs of a serviceProvider and a client
\* configuration; serviceProvider.templateParams has client_name, client_email,
\* service_details and the submitted subject, client.templateParams has
\* client_name, to_email, the submitted subject and service_details; an absent
\* phone or address is returned as 'Not provided'.
C20_PrepareEmailAsDocumented ==
  \A r \in Requests :
    (/\ program = "part_002" /\ r.endpoint = "/api/prepare-email"
     /\ Answered(r) /\ ~MissingRequired(r)) =>
      LET b == r.raw
          sp == r.resp.configs.serviceProvider.templateParams
          cl == r.resp.configs.client.templateParams
      IN  /\ r.resp.status = 200 /\ r.resp.success
          /\ "emailConfigs" \in r.resp.keys
          /\ DOMAIN r.resp.configs = {"serviceProvider", "client"}
          /\ sp.client_name = b.name
          /\ sp.client_email = b.email
          /\ sp.service_details = b.message
          /\ b.phone = Undefined => sp.client_phone = <<"Not provided">>
          /\ b.address = Undefined => sp.address = <<"Not provided">>
          /\ cl.client_name = b.name
          /\ cl.to_email = b.email
          /\ cl.service_details = b.message
          /\ b.subject # Undefined =>
                /\ "subject" \in DOMAIN sp /\ sp.subject = b.subject
                /\ "subject" \in DOMAIN cl /\ cl.subject = b.subject

\* C21: the response with the summary of the dispatch is written only when
\* both sendEmail calls of the request have returned: while a send is
\* outstanding no response has been written, and the success flag of the
\* response is the conjunction of the two final results.
C21_ResponseAfterBothSends ==
  \A r \in Requests :
    program = "index.js" =>
      /\ r.pc = "sendEmail" => r.nResp = 0 /\ r.resp = NoResponse
      /\ (Answered(r) /\ r.calls # <<>>) =>
           /\ Len(r.calls) = 2 /\ Len(r.results) = 2
           /\ r.resp.status = 200
           /\ r.resp.success <=> (r.results[1].success /\ r.results[2].success)

C21_Witness ==
  \E r \in Requests :
    /\ program = "index.js" /\ Answered(r)
    /\ Len(r.results) = 2 /\ ~r.results[1].success /\ r.results[2].success
    /\ ~r.resp.success

NonEmpty(v) == v # Undefined /\ v # <<>>

\* the message of a submission: description of /send-email, message of
\* /support-email
Message(r) ==
  IF r.endpoint = "/send-email" THEN r.data.fields.description
  ELSE r.data.fields.message

\* C22: whenever a sendEmail call has been made for a request, the sanitized
\* name, email and message of that request are non-empty strings.
C22_DispatchNeedsNameEmailMessage ==
  \A r \in Requests :
    (program = "index.js" /\ r.calls # <<>>) =>
      /\ NonEmpty(r.data.name)
      /\ NonEmpty(r.data.clientEmail)
      /\ NonEmpty(Message(r))
      /\ \A k \in 1..Len(r.calls) : r.calls[k].content.slots.name = r.data.name

C22_Witness ==
  \E r \in Requests :
    /\ program = "index.js" /\ r.calls # <<>>
    /\ r.raw.firstName = S_TAGGED
    /\ r.data.fields.firstName # r.raw.firstName
    /\ NonEmpty(r.data.name)

\* an address without an @, or none at all
NoAddress(to) == to = Undefined \/ Positions(to, "@") = {}

\* C23: sendEmail hands a message to the transport only for a recipient that
\* is an address; with a recipient that is none it does not call the
\* transport and returns {success: false, errorId} to the handler, which goes
\* on as after any failed send: nothing is raised to it.
C23_InvalidRecipientIsAFailedSend ==
  \A r \in Requests :
    program = "index.js" =>
      /\ \A k \in 1..Len(r.calls) :
           /\ r.calls[k].sent =>
                /\ ~NoAddress(r.calls[k].to)
                /\ \A c \in 1..Len(r.calls[k].to) : r.calls[k].to[c] \notin WhiteSpace
           /\ NoAddress(r.calls[k].to) =>
                /\ ~r.calls[k].sent
                /\ k <= Len(r.results) =>
                     /\ ~r.results[k].success
                     /\ r.results[k].errorId > 0 /\ r.results[k].messageId = 0
      /\ (Answered(r) /\ r.calls # <<>>) =>
           /\ r.resp.status = 200 /\ Len(r.results) = 2

C23_Witness ==
  \E r \in Requests :
    /\ program = "index.js" /\ Answered(r)
    /\ Len(r.calls) = 2 /\ r.calls[1].to = S_SUPPORT_BAD /\ ~r.calls[1].sent
    /\ ~r.results[1].success /\ r.results[2].success
    /\ r.resp.status = 200

\* C24: a request gets one response: the handlers of /send-email and
\* /support-email write it once on every path (400, 200 or 500); an answered
\* request has exactly one response, a request still in the handler has none,
\* and a response that was written is never replaced by another.
C24_ExactlyOneResponse ==
  /\ [](\A r \in Requests :
          program = "index.js" =>
            /\ r.nResp <= 1
            /\ Answered(r) <=> r.nResp = 1
            /\ Answered(r) <=> r.resp # NoResponse
            /\ r.pc \in {"handler", "sendEmail"} => r.nResp = 0)
  /\ [][\A i \in DOMAIN reqs :
          (program = "index.js" /\ reqs[i].nResp = 1) =>
             (reqs'[i] = reqs[i] \/ reqs'[i] = Idle)]_vars

C24_Witness ==
  \E r \in Requests :
    /\ program = "index.js" /\ r.endpoint \in MailEndpoints
    /\ Answered(r) /\ r.nResp = 1
    /\ Len(r.results) = 2 /\ ~r.results[1].success /\ ~r.results[2].success
    /\ r.resp.status = 200 /\ Len(r.resp.errorIds) = 2

\* the sendEmail calls of a request that have not returned yet
Outstanding(r) == Len(r.calls) - Len(r.results)

\* C25: the two sends of a request are strictly sequential: at most one send
\* is outstanding at any time, the send to the client exists only once the send
\* to the business has returned, and a send begins only in a step that leaves
\* no other send of the request outstanding.
C25_SendsAreSequential ==
  /\ [](\A r \in Requests :
          program = "index.js" =>
            /\ Outstanding(r) \in {0, 1}
            /\ \A k \in DOMAIN r.calls :
                 r.calls[k].leg = "client" => (k = 2 /\ Len(r.results) >= 1))
  /\ [][\A i \in DOMAIN reqs :
          (program = "index.js" /\ Len(reqs'[i].calls) > Len(reqs[i].calls)) =>
             /\ Len(reqs'[i].calls) = Len(reqs[i].calls) + 1
             /\ Len(reqs'[i].results) = Len(reqs[i].calls)]_vars

C25_Witness ==
  \E r \in Requests :
    /\ program = "index.js" /\ r.pc = "sendEmail"
    /\ Len(r.calls) = 2 /\ r.calls[2].leg = "client" /\ r.calls[2].sent
    /\ Len(r.results) = 1 /\ r.results[1].success
    /\ Outstanding(r) = 1

\* a request that carries an Origin header other than the configured site
ForeignOrigin(r) ==
  program = "index.js" /\ r.pc # "idle" /\ r.origin \notin {"none", env.WEBSITE_URL}

Counted(ip) == emailLog[ip].send + emailLog[ip].support

\* C27: /send-email and /support-email draw on one quota per IP: the requests
\* let through to the two endpoints together never exceed 5 in a window, and
\* once k requests to /send-email and m to /support-email with k + m = 5 have
\* been let through, the next request to either endpoint is answered 429.
C27_OneQuotaForBothEndpoints ==
  /\ [](\A ip \in IPs :
          /\ Counted(ip) <= EmailMax
          /\ Counted(ip) = IF emailHits[ip] <= EmailMax THEN emailHits[ip] ELSE EmailMax)
  /\ [][\A i \in DOMAIN reqs :
          (reqs[i].pc = "emailLimiter" /\ reqs'[i] # reqs[i]) =>
             IF Counted(reqs[i].ip) = EmailMax
             THEN /\ EmailLimited(reqs'[i])
                  /\ reqs'[i].endpoint = reqs[i].endpoint
                  /\ ~reqs'[i].validated /\ reqs'[i].calls = <<>>
                  /\ emailLog' = emailLog
             ELSE /\ reqs'[i].pc = "validation"
                  /\ Counted(reqs[i].ip)' = Counted(reqs[i].ip) + 1]_vars

C27_Witness ==
  \E r \in Requests :
    /\ EmailLimited(r) /\ r.endpoint = "/send-email"
    /\ emailLog[r.ip].send = 2 /\ emailLog[r.ip].support = 3
    /\ emailHits[r.ip] = EmailMax + 1

\* the same as C27_Witness, for the other endpoint
C27_WitnessSupport ==
  \E r \in Requests :
    /\ EmailLimited(r) /\ r.endpoint = "/support-email"
    /\ emailLog[r.ip].send = 4 /\ emailLog[r.ip].support = 1

\* the input of request r passes the validation chain of its route
ValidInput(r) ==
  ~hasErrors(IF r.endpoint = "/send-email" THEN serviceRequestValidation(r.body)
             ELSE supportRequestValidation(r.body))

\* C28: a request that reaches the mail limiter uses up one unit of its IP's
\* quota whatever becomes of it: the unit is taken at the limiter, before the
\* outcome is known, and no response (400, 200 with success false, 200) gives
\* it back; only the end of the window does. So after five invalid
\* submissions the next one, valid or not, is answered 429 and not dispatched.
C28_EveryRequestConsumesQuota ==
  /\ [](\A ip \in IPs :
          /\ emailLog[ip].invalid <= Counted(ip)
          /\ emailHits[ip] >= Counted(ip)
          /\ emailHits[ip] <= EmailMax => emailHits[ip] = Counted(ip))
  /\ [][\A i \in DOMAIN reqs :
          /\ (reqs[i].pc = "emailLimiter" /\ reqs'[i] # reqs[i]) =>
                /\ emailHits'[reqs[i].ip] = emailHits[reqs[i].ip] + 1
                /\ (emailLog[reqs[i].ip].invalid = EmailMax) =>
                      /\ EmailLimited(reqs'[i])
                      /\ ~reqs'[i].validated /\ reqs'[i].calls = <<>>
          /\ (reqs[i].pc \in {"validation", "handler", "sendEmail", "done"}
              /\ reqs'[i] # reqs[i]) => emailHits' = emailHits]_vars
  /\ [][(\E ip \in IPs : emailHits'[ip] < emailHits[ip]) =>
          (reqs' = reqs /\ \A ip \in IPs : emailHits'[ip] = 0)]_vars

C28_Witness ==
  \E r \in Requests :
    /\ EmailLimited(r) /\ r.endpoint = "/send-email"
    /\ ValidInput(r) /\ r.body = ValidService
    /\ r.calls = <<>>
    /\ emailLog[r.ip].invalid = EmailMax /\ emailLog[r.ip].send = EmailMax
    /\ emailHits[r.ip] = EmailMax + 1

\* a request answered 200 with success false has used a unit of the quota
C28_WitnessFailedSend ==
  \E r \in Requests :
    /\ Answered(r) /\ r.resp.status = 200 /\ ~r.resp.success
    /\ emailHits[r.ip] = EmailMax /\ emailLog[r.ip].invalid = 0

\* the claimDeal values that denote true, and those that denote false
DenotesTrue == {JSON_TRUE, LIT_TRUE, <<"1">>}
DenotesFalse == {JSON_FALSE, LIT_FALSE, <<"0">>}

\* C29: for every claimDeal value the validator accepts, the business
\* notification reports the deal as 'Claimed' exactly when the value denotes
\* true (true, 'true', '1') and as 'Not claimed' when it denotes false
\* (false, 'false', '0') or is absent.
C29_DealReportedByMeaning ==
  \A r \in Requests :
    (program = "index.js" /\ r.endpoint = "/send-email" /\ r.calls # <<>>) =>
       LET deal == r.calls[1].content.slots.deal
           v == r.raw.claimDeal
       IN  /\ v \in DenotesTrue \cup DenotesFalse \cup {Undefined}
           /\ v \in DenotesTrue => StartsWith(deal, <<"Claimed ($">>)
           /\ v \in DenotesFalse \cup {Undefined} => deal = <<"Not claimed">>

\* C30: a body of at most 100 * 1024 bytes is never answered 413: only a body
\* of more than 102400 bytes is rejected as too large, and one of exactly
\* 102400 bytes is parsed and goes on to the route.
C30_BodyWithinCapIsAccepted ==
  \A r \in Requests :
    (program = "index.js" /\ Answered(r) /\ r.resp.status = 413) => r.size > 100 * 1024

====
